---- MODULE Spec2Model ----
(***************************************************************************)
(* bookworm: the docset indexer (wrm_index), the search query              *)
(* (wrm_query::search_crate_type_definitions), the fragment resolver       *)
(* (wrm_docs::Docs::item) and the crate_search_items tool (wrm_mcp).       *)
(*                                                                         *)
(* Strings whose characters the code inspects (file names, paths, names,   *)
(* queries) are sequences of one-character strings.  Values the code only  *)
(* compares for equality (the Display text of an EntryType) are TLA+       *)
(* strings.                                                                *)
(***************************************************************************)
EXTENDS Integers, Sequences, FiniteSets, TLC

(***************************************************************************)
(* Bounds.                                                                 *)
(***************************************************************************)
\* largest number of files in a docset
MaxFiles == 2
\* longest query drawn from QueryChars
MaxQueryLen == 1
\* most tokens of the text of a parsed file, line ends included
MaxTextTokens == 4
\* bytes of a run of other markup
TextBytes == 300

(***************************************************************************)
(* Characters and strings.                                                 *)
(***************************************************************************)
LowerMap ==
  ("A" :> "a") @@ ("B" :> "b") @@ ("C" :> "c") @@ ("D" :> "d") @@ ("E" :> "e") @@
  ("F" :> "f") @@ ("G" :> "g") @@ ("H" :> "h") @@ ("I" :> "i") @@ ("J" :> "j") @@
  ("K" :> "k") @@ ("L" :> "l") @@ ("M" :> "m") @@ ("N" :> "n") @@ ("O" :> "o") @@
  ("P" :> "p") @@ ("Q" :> "q") @@ ("R" :> "r") @@ ("S" :> "s") @@ ("T" :> "t") @@
  ("U" :> "u") @@ ("V" :> "v") @@ ("W" :> "w") @@ ("X" :> "x") @@ ("Y" :> "y") @@
  ("Z" :> "z")

\* char::to_ascii_lowercase, which is also SQLite's case folding in LIKE
Lower(c) == IF c \in DOMAIN LowerMap THEN LowerMap[c] ELSE c

\* str::to_lowercase
ToLowercase(s) == [i \in 1..Len(s) |-> Lower(s[i])]

\* the suffix of s that starts at index i
From(s, i) == SubSeq(s, i, Len(s))

StartsWith(s, p) == Len(p) <= Len(s) /\ SubSeq(s, 1, Len(p)) = p

EndsWith(s, p) == Len(p) <= Len(s) /\ SubSeq(s, Len(s) - Len(p) + 1, Len(s)) = p

\* str::contains for a one-character pattern
HasChar(s, c) == \E i \in 1..Len(s) : s[i] = c

\* str::replace(c, with) for a one-character pattern
RECURSIVE Replace(_, _, _)
Replace(s, c, with) ==
  IF s = <<>> THEN <<>>
  ELSE (IF Head(s) = c THEN with ELSE <<Head(s)>>) \o Replace(Tail(s), c, with)

\* str::split(c), collected
RECURSIVE Split(_, _)
Split(s, c) ==
  IF ~HasChar(s, c) THEN <<s>>
  ELSE LET i == CHOOSE k \in 1..Len(s) : s[k] = c /\ \A j \in 1..(k - 1) : s[j] # c
       IN  <<SubSeq(s, 1, i - 1)>> \o Split(From(s, i + 1), c)

\* the parts joined with sep between them
RECURSIVE Join(_, _)
Join(parts, sep) ==
  IF parts = <<>> THEN <<>>
  ELSE IF Len(parts) = 1 THEN parts[1]
  ELSE parts[1] \o sep \o Join(Tail(parts), sep)

\* str::rsplit_once(c).unwrap_or((s, ""))
RSplitOnce(s, c) ==
  IF ~HasChar(s, c) THEN <<s, <<>>>>
  ELSE LET i == CHOOSE k \in 1..Len(s) : s[k] = c /\ \A j \in (k + 1)..Len(s) : s[j] # c
       IN  <<SubSeq(s, 1, i - 1), From(s, i + 1)>>

\* str::strip_prefix: whether s starts with p, and the rest after it
StripPrefix(s, p) ==
  [some |-> StartsWith(s, p), rest |-> IF StartsWith(s, p) THEN From(s, Len(p) + 1) ELSE <<>>]

SLASH == <<"/">>
COLONS == <<":", ":">>
DOT == <<".">>
HASH == <<"#">>
HTML == <<"h", "t", "m", "l">>
INDEX == <<"i", "n", "d", "e", "x">>
METHOD_PREFIX == <<"m", "e", "t", "h", "o", "d", ".">>
VARIANT_PREFIX == <<"v", "a", "r", "i", "a", "n", "t", ".">>

(***************************************************************************)
(* EntryType.                                                              *)
(***************************************************************************)
\* EntryType::all(), each kind by its Display text
EntryTypeAll ==
  <<"Constant", "Enum", "Function", "Macro", "Method", "Module", "Struct",
    "Trait", "Type", "Variant", "Attribute">>

\* EntryType::from_str: the kind, or the UnknownEntryType error
FromStr(s) ==
  LET l == ToLowercase(s) IN
  CASE l = <<"c", "o", "n", "s", "t", "a", "n", "t">> -> [ok |-> TRUE, ty |-> "Constant"]
    [] l = <<"e", "n", "u", "m">> -> [ok |-> TRUE, ty |-> "Enum"]
    [] l = <<"f", "n">> -> [ok |-> TRUE, ty |-> "Function"]
    [] l = <<"f", "u", "n", "c", "t", "i", "o", "n">> -> [ok |-> TRUE, ty |-> "Function"]
    [] l = <<"m", "a", "c", "r", "o">> -> [ok |-> TRUE, ty |-> "Macro"]
    [] l = <<"m", "e", "t", "h", "o", "d">> -> [ok |-> TRUE, ty |-> "Method"]
    [] l = <<"m", "o", "d", "u", "l", "e">> -> [ok |-> TRUE, ty |-> "Module"]
    [] l = <<"s", "t", "r", "u", "c", "t">> -> [ok |-> TRUE, ty |-> "Struct"]
    [] l = <<"t", "r", "a", "i", "t">> -> [ok |-> TRUE, ty |-> "Trait"]
    [] l = <<"t", "y", "p", "e">> -> [ok |-> TRUE, ty |-> "Type"]
    [] l = <<"v", "a", "r", "i", "a", "n", "t">> -> [ok |-> TRUE, ty |-> "Variant"]
    [] l = <<"a", "t", "t", "r">> -> [ok |-> TRUE, ty |-> "Attribute"]
    [] l = <<"a", "t", "t", "r", "i", "b", "u", "t", "e">> -> [ok |-> TRUE, ty |-> "Attribute"]
    [] OTHER -> [ok |-> FALSE, ty |-> "UnknownEntryType"]

\* DocsetEntry::new
DocsetEntry(name, ty, path) == [name |-> name, ty |-> ty, path |-> path]

(***************************************************************************)
(* The docset: a set of files.  A file has the directories from the docset *)
(* root down to it (dir), its file name, its text as lines of tokens       *)
(* (lines), and what the selectors of the indexer and of the resolver find *)
(* in its DOM: the ids of the method sections (methods), the ids of the    *)
(* variant sections (variants), both in document order, and whether it has *)
(* a #main-content element (main).                                         *)
(***************************************************************************)
\* `<title>Redirection</title>`
TITLE == "TITLE"
\* `</head>`
HEADEND == "HEADEND"
\* any other markup
TEXT == "TEXT"
\* bytes that are not valid UTF-8
BADUTF8 == "BADUTF8"

\* the length of `<title>Redirection</title>`
TitleBytes == 26
\* the length of `</head>`
HeadEndBytes == 7
\* the capacity of the BufReader of check_if_redirection
RedirectionWindow == 512

File(dir, name, lines, methods, variants, main) ==
  [dir |-> dir, name |-> name, lines |-> lines, methods |-> methods,
   variants |-> variants, main |-> main]

\* the path of a file relative to the docset root (Path::strip_prefix(root))
RelPath(f) == Join(f.dir \o <<f.name>>, SLASH)

\* Path::extension of a file name
Extension(name) ==
  LET parts == Split(name, ".") IN
  IF Len(parts) = 1 \/ (Len(parts) = 2 /\ parts[1] = <<>>)
  THEN [some |-> FALSE, ext |-> <<>>]
  ELSE [some |-> TRUE, ext |-> parts[Len(parts)]]

LineHas(line, tok) == \E i \in 1..Len(line) : line[i] = tok

\* fs::read_to_string fails on text that is not UTF-8
ReadToStringOk(f) == \A i \in 1..Len(f.lines) : ~LineHas(f.lines[i], BADUTF8)

\* CheckIfRedirection that leaves the loop before it keeps the line that
\* holds `</head>`
CheckIfRedirectionDropLastLine(lines) ==
  LET stops == {i \in 1..Len(lines) : LineHas(lines[i], HEADEND)}
      last == IF stops = {} THEN Len(lines)
              ELSE (CHOOSE i \in stops : \A j \in stops : i <= j) - 1
  IN  IF \E i \in 1..last : LineHas(lines[i], BADUTF8)
      THEN [err |-> "Io", redirect |-> FALSE]
      ELSE [err |-> "none", redirect |-> \E i \in 1..last : LineHas(lines[i], TITLE)]

\* check_if_redirection: lines are read up to the first one that holds
\* `</head>` or to the end of the file; read_line fails on invalid UTF-8
CheckIfRedirection(lines) ==
  LET stops == {i \in 1..Len(lines) : LineHas(lines[i], HEADEND)}
      last == IF stops = {} THEN Len(lines)
              ELSE CHOOSE i \in stops : \A j \in stops : i <= j
  IN  IF \E i \in 1..last : LineHas(lines[i], BADUTF8)
      THEN [err |-> "Io", redirect |-> FALSE]
      ELSE [err |-> "none", redirect |-> \E i \in 1..last : LineHas(lines[i], TITLE)]

(***************************************************************************)
(* The walker.  A result is [err, entries]; err is "none" on success.      *)
(***************************************************************************)
Ok(entries) == [err |-> "none", entries |-> entries]

Err(e) == [err |-> e, entries |-> <<>>]

RECURSIVE NestedEntries(_, _, _, _, _)
\* the loop of parse_enum_variants / parse_impl_methods over the selected
\* sections: ids without the prefix are skipped
NestedEntries(ids, prefix, ty, parent, relpath) ==
  IF ids = <<>> THEN <<>>
  ELSE LET id == Head(ids)
           stripped == StripPrefix(id, prefix)
           rest == NestedEntries(Tail(ids), prefix, ty, parent, relpath)
       IN  IF stripped.some
           THEN <<DocsetEntry(parent \o COLONS \o stripped.rest, ty, relpath \o HASH \o id)>> \o rest
           ELSE rest

\* parse_enum_variants
ParseEnumVariants(f, parent) ==
  IF ~ReadToStringOk(f) THEN Err("Io")
  ELSE Ok(NestedEntries(f.variants, VARIANT_PREFIX, "Variant", parent, RelPath(f)))

\* parse_impl_methods
ParseImplMethods(f, parent) ==
  IF ~ReadToStringOk(f) THEN Err("Io")
  ELSE Ok(NestedEntries(f.methods, METHOD_PREFIX, "Method", parent, RelPath(f)))

\* ParseSymbolFile that skips a file whose kind token it does not know
ParseSymbolFileSkipUnknown(f, parts, module_path) ==
  LET name == IF module_path = <<>> THEN parts[2] ELSE module_path \o COLONS \o parts[2]
      ty == FromStr(parts[1])
      methods == IF ty.ty \in {"Struct", "Enum", "Trait"} THEN ParseImplMethods(f, name) ELSE Ok(<<>>)
      variants == IF ty.ty \in {"Enum", "Type"} THEN ParseEnumVariants(f, name) ELSE Ok(<<>>)
  IN  IF ~ty.ok THEN Ok(<<>>)
      ELSE IF methods.err # "none" THEN methods
      ELSE IF variants.err # "none" THEN variants
      ELSE Ok(methods.entries \o variants.entries \o <<DocsetEntry(name, ty.ty, RelPath(f))>>)

\* ParseSymbolFile that looks for methods and variants in a page of any kind
ParseSymbolFileAnyKind(f, parts, module_path) ==
  LET name == IF module_path = <<>> THEN parts[2] ELSE module_path \o COLONS \o parts[2]
      ty == FromStr(parts[1])
      methods == ParseImplMethods(f, name)
      variants == ParseEnumVariants(f, name)
  IN  IF ~ty.ok THEN Err("UnknownEntryType")
      ELSE IF methods.err # "none" THEN methods
      ELSE IF variants.err # "none" THEN variants
      ELSE Ok(methods.entries \o variants.entries \o <<DocsetEntry(name, ty.ty, RelPath(f))>>)

\* the `3 =>` arm of parse_rustdoc_file
ParseSymbolFile(f, parts, module_path) ==
  LET name == IF module_path = <<>> THEN parts[2] ELSE module_path \o COLONS \o parts[2]
      ty == FromStr(parts[1])
      methods == IF ty.ty \in {"Struct", "Enum", "Trait"} THEN ParseImplMethods(f, name) ELSE Ok(<<>>)
      variants == IF ty.ty \in {"Enum", "Type"} THEN ParseEnumVariants(f, name) ELSE Ok(<<>>)
  IN  IF ~ty.ok THEN Err("UnknownEntryType")
      ELSE IF methods.err # "none" THEN methods
      ELSE IF variants.err # "none" THEN variants
      ELSE Ok(methods.entries \o variants.entries \o <<DocsetEntry(name, ty.ty, RelPath(f))>>)

\* parse_rustdoc_file
ParseRustdocFile(f, module_path) ==
  LET ext == Extension(f.name)
      redirection == CheckIfRedirection(f.lines)
      parts == Split(f.name, ".")
  IN  IF ~ext.some \/ ext.ext # HTML THEN Ok(<<>>)
      ELSE IF redirection.err # "none" THEN Err(redirection.err)
      ELSE IF redirection.redirect THEN Ok(<<>>)
      ELSE IF Len(parts) = 2 /\ parts[1] = INDEX
           THEN Ok(<<DocsetEntry(Replace(Join(f.dir, SLASH), "/", COLONS), "Module", RelPath(f))>>)
      ELSE IF Len(parts) = 3 THEN ParseSymbolFile(f, parts, module_path)
      ELSE Ok(<<>>)

ROOT_SKIP_DIRS == {<<"s", "r", "c">>, <<"i", "m", "p", "l", "e", "m", "e", "n", "t", "o", "r", "s">>}

\* fs::read_dir(cur_dir): the children of cur_dir in the order in which the
\* enumeration ord (a sequence of all files) first reaches them
RECURSIVE ReadDir(_, _, _)
ReadDir(ord, cur_dir, seen) ==
  IF ord = <<>> THEN <<>>
  ELSE LET f == Head(ord)
           under == Len(f.dir) >= Len(cur_dir) /\ SubSeq(f.dir, 1, Len(cur_dir)) = cur_dir
           is_dir == Len(f.dir) > Len(cur_dir)
           child == IF is_dir THEN [is_dir |-> TRUE, name |-> f.dir[Len(cur_dir) + 1], file |-> f]
                    ELSE [is_dir |-> FALSE, name |-> f.name, file |-> f]
       IN  IF ~under \/ (is_dir /\ child.name \in seen)
           THEN ReadDir(Tail(ord), cur_dir, seen)
           ELSE <<child>> \o ReadDir(Tail(ord), cur_dir, IF is_dir THEN seen \cup {child.name} ELSE seen)

RECURSIVE RecursiveWalk(_, _, _)
RECURSIVE WalkLoop(_, _, _, _, _)
\* the body of the `for dir_entry` loop of recursive_walk, from the i-th
\* child on, with the entries collected so far
WalkLoop(ord, cur_dir, module_path, i, all_entries) ==
  LET children == ReadDir(ord, cur_dir, {}) IN
  IF i > Len(children) THEN Ok(all_entries)
  ELSE LET c == children[i]
           skip == c.is_dir /\ module_path = <<>> /\ c.name \in ROOT_SKIP_DIRS
           sub_path == IF module_path = <<>>
                       THEN (IF cur_dir \o <<c.name>> = <<c.name>> THEN <<>> ELSE c.name)
                       ELSE module_path \o COLONS \o c.name
           entries == IF c.is_dir THEN RecursiveWalk(ord, cur_dir \o <<c.name>>, sub_path)
                      ELSE ParseRustdocFile(c.file, module_path)
       IN  IF skip THEN WalkLoop(ord, cur_dir, module_path, i + 1, all_entries)
           ELSE IF entries.err # "none" THEN entries
           ELSE WalkLoop(ord, cur_dir, module_path, i + 1, all_entries \o entries.entries)

\* recursive_walk(root, cur_dir, module_path)
RecursiveWalk(ord, cur_dir, module_path) == WalkLoop(ord, cur_dir, module_path, 1, <<>>)

(***************************************************************************)
(* The Index Store: the searchIndex table of the SQLite file.  exists: the *)
(* table exists; unique: the unique index `anchor` exists on it; rows: its *)
(* rows in rowid order.                                                    *)
(***************************************************************************)
NoTable == [exists |-> FALSE, unique |-> FALSE, rows |-> <<>>]

Row(e) == [name |-> e.name, ty |-> e.ty, path |-> e.path]

\* how Connection::execute treats SQL text that holds more than one
\* statement: it prepares and runs the first statement only; the text after
\* it is either ignored ("ignored") or, in builds of rusqlite that check the
\* tail, makes the call fail before anything is run ("rejected")
TailModes == {"ignored", "rejected"}

\* one SQL statement of generate_sqlite_index applied to the table
ApplyStatement(stmt, t) ==
  CASE stmt = "DROP TABLE IF EXISTS searchIndex" -> NoTable
    [] stmt = "CREATE TABLE searchIndex" -> [exists |-> TRUE, unique |-> FALSE, rows |-> <<>>]
    [] stmt = "CREATE UNIQUE INDEX anchor" -> [t EXCEPT !.unique = TRUE]
    [] OTHER -> t

\* Connection::execute(sql, ()): [err, table]
Execute(sql, t, tail) ==
  IF Len(sql) > 1 /\ tail = "rejected" THEN [err |-> "Sqlite", table |-> t]
  ELSE IF sql[1] = "CREATE TABLE searchIndex" /\ t.exists
       THEN [err |-> "Sqlite", table |-> t]
  ELSE [err |-> "none", table |-> ApplyStatement(sql[1], t)]

\* the INSERT loop of generate_sqlite_index inside its transaction: the
\* rows after the loop, or a constraint failure
RECURSIVE InsertAll(_, _, _)
InsertAll(entries, rows, unique) ==
  IF entries = <<>> THEN [err |-> "none", rows |-> rows]
  ELSE LET r == Row(Head(entries)) IN
       IF unique /\ \E i \in 1..Len(rows) : rows[i] = r
       THEN [err |-> "Sqlite", rows |-> rows]
       ELSE InsertAll(Tail(entries), Append(rows, r), unique)

\* GenerateSqliteIndex that keeps an existing table instead of dropping it
GenerateSqliteIndexKeepTable(entries, t, tail) ==
  LET created == IF t.exists THEN [err |-> "none", table |-> t]
                 ELSE Execute(<<"CREATE TABLE searchIndex", "CREATE UNIQUE INDEX anchor">>, t, tail)
      inserted == InsertAll(entries, created.table.rows, created.table.unique)
  IN  IF created.err # "none" THEN created
      ELSE IF inserted.err # "none"
           THEN [err |-> inserted.err, table |-> created.table]
      ELSE [err |-> "none", table |-> [created.table EXCEPT !.rows = inserted.rows]]

\* generate_sqlite_index(entries, conn): [err, table]
GenerateSqliteIndex(entries, t, tail) ==
  LET dropped == Execute(<<"DROP TABLE IF EXISTS searchIndex">>, t, tail)
      created == Execute(<<"CREATE TABLE searchIndex", "CREATE UNIQUE INDEX anchor">>,
                         dropped.table, tail)
      inserted == InsertAll(entries, created.table.rows, created.table.unique)
  IN  IF created.err # "none" THEN created
      ELSE IF inserted.err # "none"
           THEN [err |-> inserted.err, table |-> created.table]
      ELSE [err |-> "none", table |-> [created.table EXCEPT !.rows = inserted.rows]]

\* what index returns once generate_sqlite_index has returned built
IndexBuilt(built, entries) == [err |-> built.err, table |-> built.table, entries |-> entries]

\* index(config) from the result of recursive_walk on: a failed walk leaves
\* the store as it is
IndexWalked(walk, t, tail) ==
  IF walk.err # "none" THEN [err |-> walk.err, table |-> t, entries |-> <<>>]
  ELSE IndexBuilt(GenerateSqliteIndex(walk.entries, t, tail), walk.entries)

\* index(config) on a docset enumerated in the order ord: [err, table, entries]
Index(ord, t, tail) == IndexWalked(RecursiveWalk(ord, <<>>, <<>>), t, tail)

(***************************************************************************)
(* The search query.                                                       *)
(***************************************************************************)
\* SQLite's LIKE without ESCAPE: `%` stands for any run of characters, `_`
\* for any one character, letters compare without case; pat from index i
\* against s from index j
RECURSIVE LikeFrom(_, _, _, _)
LikeFrom(pat, i, s, j) ==
  IF i > Len(pat) THEN j > Len(s)
  ELSE IF pat[i] = "%"
       THEN LikeFrom(pat, i + 1, s, j) \/ (j <= Len(s) /\ LikeFrom(pat, i, s, j + 1))
  ELSE j <= Len(s)
       /\ (pat[i] = "_" \/ Lower(pat[i]) = Lower(s[j]))
       /\ LikeFrom(pat, i + 1, s, j + 1)

\* s LIKE pat
Like(s, pat) == LikeFrom(pat, 1, s, 1)

\* query.replace('%', "")
ExactQuery(query) == Replace(query, "%", <<>>)

\* FuzzyQuery whose arm for the empty query gives the empty pattern
FuzzyQueryEmptyPattern(query) ==
  IF query = <<>> THEN <<>>
  ELSE IF Head(query) = "%" THEN query
  ELSE IF query[Len(query)] = "%" THEN query
  ELSE <<"%">> \o Replace(query, " ", <<"%">>) \o <<"%">>

\* the `match query` that builds fuzzy_query
FuzzyQuery(query) ==
  IF query = <<>> THEN <<"%">>
  ELSE IF Head(query) = "%" THEN query
  ELSE IF query[Len(query)] = "%" THEN query
  ELSE <<"%">> \o Replace(query, " ", <<"%">>) \o <<"%">>

\* Matches without the `type IN rarray(:kinds)` term
MatchesAnyKind(r, fuzzy_query, kinds) ==
  Like(r.name, fuzzy_query) \/ Like(r.path, fuzzy_query)

\* the WHERE clause
Matches(r, fuzzy_query, kinds) ==
  /\ Like(r.name, fuzzy_query) \/ Like(r.path, fuzzy_query)
  /\ r.ty \in kinds

\* the CASE expression of the ORDER BY clause
Tier(r, exact_query) ==
  IF r.name = exact_query THEN 0
  ELSE IF r.path = exact_query THEN 1
  ELSE IF Like(r.name, <<"%">> \o exact_query) THEN 2
  ELSE IF Like(r.name, exact_query \o <<"%">>) THEN 3
  ELSE IF Like(r.path, <<"%">> \o exact_query) THEN 4
  ELSE IF Like(r.path, exact_query \o <<"%">>) THEN 5
  ELSE 6

\* the ORDER BY terms of a row
SortKey(r, exact_query) == <<Tier(r, exact_query), Len(r.name), Len(r.path)>>

\* KeyLess with the ORDER BY descending
KeyLessDescending(a, b) ==
  \/ a[1] > b[1]
  \/ a[1] = b[1] /\ a[2] > b[2]
  \/ a[1] = b[1] /\ a[2] = b[2] /\ a[3] > b[3]

\* ascending comparison of two ORDER BY keys
KeyLess(a, b) ==
  \/ a[1] < b[1]
  \/ a[1] = b[1] /\ a[2] < b[2]
  \/ a[1] = b[1] /\ a[2] = b[2] /\ a[3] < b[3]

\* ids is sorted by keys; id goes behind every element whose key is not
\* greater, so rows with equal keys stay in rowid order
RECURSIVE InsertSorted(_, _, _)
InsertSorted(ids, id, keys) ==
  IF ids = <<>> THEN <<id>>
  ELSE IF KeyLess(keys[id], keys[Head(ids)]) THEN <<id>> \o ids
  ELSE <<Head(ids)>> \o InsertSorted(Tail(ids), id, keys)

\* the ORDER BY terms of the rows, in rowid order
RECURSIVE SortKeys(_, _)
SortKeys(rows, exact_query) ==
  IF rows = <<>> THEN <<>>
  ELSE <<SortKey(Head(rows), exact_query)>> \o SortKeys(Tail(rows), exact_query)

\* the rowids of the matching rows in ORDER BY order, rows 1..n considered
RECURSIVE OrderedMatches(_, _, _, _, _)
OrderedMatches(rows, n, fuzzy_query, keys, kinds) ==
  IF n = 0 THEN <<>>
  ELSE LET before == OrderedMatches(rows, n - 1, fuzzy_query, keys, kinds) IN
       IF Matches(rows[n], fuzzy_query, kinds)
       THEN InsertSorted(before, n, keys)
       ELSE before

\* LIMIT :limit, with limit.unwrap_or(u32::MAX): without a limit the bound
\* is 4294967295 rows, more than any table here holds
Limit(ids, limit) ==
  IF ~limit.some \/ Len(ids) <= limit.n THEN ids ELSE SubSeq(ids, 1, limit.n)

\* `if kinds.is_empty() { kinds = EntryType::all() }`, as the set the
\* rarray holds
KindsOrAll(kinds) ==
  IF kinds = {} THEN {EntryTypeAll[i] : i \in 1..Len(EntryTypeAll)} ELSE kinds

\* the SELECT statement of search_crate_type_definitions: the rowids of the
\* result in order
Select(rows, query, kinds, limit) ==
  LET keys == SortKeys(rows, ExactQuery(query)) IN
  Limit(OrderedMatches(rows, Len(rows), FuzzyQuery(query), keys, KindsOrAll(kinds)), limit)

(***************************************************************************)
(* The fragment resolver.                                                  *)
(***************************************************************************)
NoItem == [path |-> <<>>, kind |-> "", type_info |-> [some |-> FALSE, html |-> <<>>]]

\* the ids that elements of the file carry
ElementIds(f) == {f.methods[i] : i \in 1..Len(f.methods)} \cup {f.variants[i] : i \in 1..Len(f.variants)}

\* Docs::item(path): [err, item].  The row is looked up by the part of the
\* location before `#`; query_row takes the first row that matches.
DocsItem(t, files, location) ==
  LET split == RSplitOnce(location, "#")
      path == split[1]
      fragment == split[2]
      hits == {i \in 1..Len(t.rows) : t.rows[i].path = path}
      row == t.rows[CHOOSE i \in hits : \A j \in hits : i <= j]
      found == {f \in files : RelPath(f) = path}
      f == CHOOSE x \in found : TRUE
  IN  IF ~t.exists \/ hits = {} THEN [err |-> "Sqlite", item |-> NoItem]
      ELSE IF found = {} \/ ~ReadToStringOk(f) THEN [err |-> "Io", item |-> NoItem]
      ELSE IF fragment = <<>> /\ ~f.main THEN [err |-> "NotFound", item |-> NoItem]
      ELSE IF fragment # <<>> /\ fragment \notin ElementIds(f) THEN [err |-> "NotFound", item |-> NoItem]
      ELSE [err |-> "none",
            item |-> [path |-> row.name, kind |-> row.ty,
                      type_info |-> [some |-> fragment # <<>>, html |-> fragment]]]

\* the `for row in rows` loop that leaves out a location that does not
\* resolve
RECURSIVE DefinitionsSkipFailed(_, _, _)
DefinitionsSkipFailed(t, files, locations) ==
  IF locations = <<>> THEN [err |-> "none", items |-> <<>>]
  ELSE LET first == DocsItem(t, files, Head(locations))
           rest == DefinitionsSkipFailed(t, files, Tail(locations))
       IN  IF first.err # "none" THEN rest
           ELSE [err |-> "none", items |-> <<first.item>> \o rest.items]

\* the `for row in rows` loop of search_crate_type_definitions: the Item of
\* each location in turn, the first error ends the search
RECURSIVE Definitions(_, _, _)
Definitions(t, files, locations) ==
  IF locations = <<>> THEN [err |-> "none", items |-> <<>>]
  ELSE LET first == DocsItem(t, files, Head(locations))
           rest == Definitions(t, files, Tail(locations))
       IN  IF first.err # "none" THEN [err |-> first.err, items |-> <<>>]
           ELSE IF rest.err # "none" THEN rest
           ELSE [err |-> "none", items |-> <<first.item>> \o rest.items]

\* the result of search_crate_type_definitions from the rows selected and
\* the outcome defs of resolving their locations
SearchCrateTypeDefinitionsResolved(indexed, rowids, locations, defs) ==
  IF defs.err # "none"
  THEN [err |-> defs.err, indexed |-> TRUE, table |-> indexed.table,
        entries |-> indexed.entries, rowids |-> <<>>, locations |-> <<>>, items |-> <<>>]
  ELSE [err |-> "none", indexed |-> TRUE, table |-> indexed.table,
        entries |-> indexed.entries, rowids |-> rowids, locations |-> locations,
        items |-> defs.items]

\* search_crate_type_definitions from the SELECT on: the locations of the
\* selected rows, each resolved in turn
SearchCrateTypeDefinitionsSelected(indexed, files, rowids, locations) ==
  SearchCrateTypeDefinitionsResolved(indexed, rowids, locations,
                                     Definitions(indexed.table, files, locations))

\* the `path` column of the selected rows
Locations(rows, rowids) == [i \in 1..Len(rowids) |-> rows[rowids[i]].path]

\* search_crate_type_definitions from the return of wrm_index::index on
SearchCrateTypeDefinitionsIndexed(indexed, files, query, kinds, limit, rowids) ==
  IF indexed.err # "none"
  THEN [err |-> indexed.err, indexed |-> FALSE, table |-> indexed.table,
        entries |-> indexed.entries, rowids |-> <<>>, locations |-> <<>>, items |-> <<>>]
  ELSE SearchCrateTypeDefinitionsSelected(indexed, files, rowids,
                                          Locations(indexed.table.rows, rowids))

\* the store is rebuilt, then queried
SearchCrateTypeDefinitionsQuery(indexed, files, query, kinds, limit) ==
  SearchCrateTypeDefinitionsIndexed(indexed, files, query, kinds, limit,
                                    Select(indexed.table.rows, query, kinds, limit))

\* search_crate_type_definitions(crate_name, crate_version, query, kinds,
\* limit) on the docset enumerated in the order ord:
\* [err, indexed, table, entries, rowids, locations, items]
SearchCrateTypeDefinitions(files, ord, t, tail, query, kinds, limit) ==
  SearchCrateTypeDefinitionsQuery(Index(ord, t, tail), files, query, kinds, limit)

\* the `path` that get_crate_item_resource takes from
\* `crate://{crate}/{version}/items/{location}`: Url::path() ends where the
\* fragment of the uri begins, at its first `#`
UriItemPath(location) == Split(location, "#")[1]

\* what get_crate_item_resource returns once Docs::item has returned got
GetCrateItemResourceResolved(indexed, got) ==
  [err |-> got.err, indexed |-> TRUE, table |-> indexed.table,
   entries |-> indexed.entries, item |-> got.item]

\* get_crate_item_resource from the return of wrm_index::index on
GetCrateItemResourceIndexed(indexed, files, location) ==
  IF indexed.err # "none"
  THEN [err |-> indexed.err, indexed |-> FALSE, table |-> indexed.table,
        entries |-> indexed.entries, item |-> NoItem]
  ELSE GetCrateItemResourceResolved(indexed,
                                    DocsItem(indexed.table, files, UriItemPath(location)))

\* get_crate_item_resource(uri) for the uri
\* `crate://{crate}/{version}/items/{location}`
GetCrateItemResource(files, ord, t, tail, location) ==
  GetCrateItemResourceIndexed(Index(ord, t, tail), files, location)

(***************************************************************************)
(* The crate_search_items tool.  A key of the arguments is absent (some =  *)
(* FALSE) or holds a value (v).                                            *)
(***************************************************************************)
\* the `.map(EntryType::from_str).collect::<Result<Vec<_>, _>>()` over the
\* strings of the array
RECURSIVE CollectKinds(_)
CollectKinds(strs) ==
  IF strs = <<>> THEN [err |-> "none", kinds |-> {}]
  ELSE LET k == FromStr(Head(strs))
           rest == CollectKinds(Tail(strs))
       IN  IF ~k.ok THEN [err |-> "InvalidParameter", kinds |-> {}]
           ELSE IF rest.err # "none" THEN rest
           ELSE [err |-> "none", kinds |-> {k.ty} \cup rest.kinds]

\* the key of the arguments that TryFrom<Value> reads the kinds from
KindsKey == "types"

\* TryFrom<Value> for SearchCrateItems, and validate(): [err, query, kinds]
SearchCrateItemsTryFrom(args) ==
  LET parsed == CollectKinds(IF args[KindsKey].some THEN args[KindsKey].v ELSE <<>>) IN
  IF ~args.crate_name.some THEN [err |-> "MissingParameter", query |-> <<>>, kinds |-> {}]
  ELSE IF ~args.query.some THEN [err |-> "MissingParameter", query |-> <<>>, kinds |-> {}]
  ELSE IF parsed.err # "none" THEN [err |-> parsed.err, query |-> <<>>, kinds |-> {}]
  ELSE IF Len(args.crate_name.v) < 1 \/ Len(args.query.v) < 1
       THEN [err |-> "Validation", query |-> <<>>, kinds |-> {}]
  ELSE [err |-> "none", query |-> args.query.v, kinds |-> parsed.kinds]

(***************************************************************************)
(* The docsets and the inputs of the calls.                                *)
(***************************************************************************)
\* a page whose head holds no redirection title
PageLines == <<<<TEXT>>, <<TEXT, HEADEND>>, <<TEXT>>>>

\* a redirection page
RedirectionLines == <<<<TEXT>>, <<TITLE>>, <<HEADEND>>>>

\* `{kind}.{symbol}.html`
SymbolFileName(kind, symbol) == kind \o DOT \o symbol \o DOT \o HTML

CrateDir == <<"k">>

ModuleDir == <<"m">>

\* the files docsets are made of: two symbols of the crate's root module
\* that share a name, a symbol with `_` and one with `%` in its name, a
\* struct page on which one method id occurs twice, and the module
\* directory `k/m` with its module page, an enum, and a page whose kind
\* token `zz` is no EntryType
FileUniverse ==
  { File(<<CrateDir>>, SymbolFileName(<<"f", "n">>, <<"a">>), PageLines, <<>>, <<>>, TRUE),
    File(<<CrateDir>>, SymbolFileName(<<"m", "a", "c", "r", "o">>, <<"a">>), PageLines, <<>>, <<>>, TRUE),
    File(<<CrateDir>>, SymbolFileName(<<"f", "n">>, <<"a", "_", "c">>), PageLines, <<>>, <<>>, TRUE),
    File(<<CrateDir>>, SymbolFileName(<<"f", "n">>, <<"a", "%">>), PageLines, <<>>, <<>>, TRUE),
    File(<<CrateDir>>, SymbolFileName(<<"s", "t", "r", "u", "c", "t">>, <<"S">>), PageLines,
         <<METHOD_PREFIX \o <<"f">>, METHOD_PREFIX \o <<"f">>>>, <<>>, TRUE),
    File(<<CrateDir, ModuleDir>>, INDEX \o DOT \o HTML, PageLines, <<>>, <<>>, TRUE),
    File(<<CrateDir, ModuleDir>>, SymbolFileName(<<"e", "n", "u", "m">>, <<"A">>), PageLines,
         <<METHOD_PREFIX \o <<"f">>>>, <<VARIANT_PREFIX \o <<"V">>>>, TRUE),
    File(<<CrateDir, ModuleDir>>, SymbolFileName(<<"z", "z">>, <<"a">>), PageLines, <<>>, <<>>, TRUE) }

Docsets == {d \in SUBSET FileUniverse : Cardinality(d) \in 1..MaxFiles}

\* the sequences that hold every element of S once
RECURSIVE Orders(_)
Orders(S) ==
  IF S = {} THEN {<<>>}
  ELSE UNION {{<<x>> \o p : p \in Orders(S \ {x})} : x \in S}

QueryChars == {"a", "_", "%"}

RECURSIVE StringsUpTo(_, _)
StringsUpTo(chars, n) ==
  IF n = 0 THEN {<<>>}
  ELSE StringsUpTo(chars, n - 1)
       \cup {Append(q, c) : q \in {x \in StringsUpTo(chars, n - 1) : Len(x) = n - 1}, c \in chars}

\* the item's path qualified with the directories from the docset root
\* down to its file, the crate's own directory included
QualifiedName(f) == Join(f.dir \o <<Split(f.name, ".")[2]>>, COLONS)

\* the files of a docset whose name has the shape `{kind}.{symbol}.html`
SymbolFiles(files) == {f \in files : Len(Split(f.name, ".")) = 3}

\* what the walker gives for a docset, in one enumeration order
Walked(files) == RecursiveWalk(CHOOSE ord \in Orders(files) : TRUE, <<>>, <<>>).entries

\* the queries of a docset: the short strings over QueryChars, a query in
\* upper case, a query with a space, a query of `_` only, the names the
\* walker gives, and the qualified names of its files
Queries(files) ==
  StringsUpTo(QueryChars, MaxQueryLen)
  \cup {<<"A">>, <<"a", " ", "c">>, <<"_", "_">>}
  \cup {Walked(files)[i].name : i \in 1..Len(Walked(files))}
  \cup {QualifiedName(f) : f \in SymbolFiles(files)}

KindSets == {{}, {"Method"}, {"Function", "Enum"}}

NoLimit == [some |-> FALSE, n |-> 0]

\* the strings a client puts in the array of kinds
KindArrays == {<<<<"M", "e", "t", "h", "o", "d">>>>, <<<<"n", "o">>>>}

Absent == [some |-> FALSE, v |-> <<>>]

Present(v) == [some |-> TRUE, v |-> v]

\* the arguments of a crate_search_items call: a JSON object; a key is
\* absent or holds a value
ToolArgs ==
  [crate_name : {Present(CrateDir)},
   query : {Absent, Present(<<>>), Present(<<"a">>)},
   kinds : {Absent} \cup {Present(a) : a \in KindArrays},
   types : {Absent} \cup {Present(a) : a \in KindArrays}]

(***************************************************************************)
(* The state machine.  A request arrives (Request), its handler runs as    *)
(* one step (IndexCall, SearchCall, ToolCall, ResolveCall), the caller     *)
(* takes the response (Return).                                            *)
(***************************************************************************)
VARIABLES
  docset,   \* the files of the unpacked docset
  tail,     \* the build's treatment of multi-statement SQL, see TailModes
  table,    \* the Index Store
  prev,     \* the Index Store as the handler of the call found it
  call,     \* the call: its inputs, its phase and its outcome
  calls,    \* the calls that run at the same time, one per caller
  dest      \* the destination directory of download and the archive

vars == <<docset, tail, table, prev, call, calls, dest>>

\* no calls run at the same time
NoCalls == <<>>

\* no archive was fetched, the destination directory does not exist
NoDest == [archive |-> <<>>, exists |-> FALSE, files |-> {}]

NoCall ==
  [op |-> "none", phase |-> "idle", query |-> <<>>, kinds |-> {}, limit |-> NoLimit,
   args |-> [crate_name |-> Absent, query |-> Absent, kinds |-> Absent, types |-> Absent],
   location |-> <<>>, err |-> "none", indexed |-> FALSE, entries |-> <<>>,
   rowids |-> <<>>, locations |-> <<>>, items |-> <<>>, item |-> NoItem]

\* the location of a page that no docset holds
NoSuchLocation == Join(<<CrateDir, SymbolFileName(<<"f", "n">>, <<"n", "o">>)>>, SLASH)

\* the calls that can arrive for a docset
Requests(files) ==
  {[NoCall EXCEPT !.op = "index", !.phase = "pending"]}
  \cup {[NoCall EXCEPT !.op = "search", !.phase = "pending", !.query = q, !.kinds = k]
          : q \in Queries(files), k \in KindSets}
  \cup {[NoCall EXCEPT !.op = "search", !.phase = "pending", !.query = q,
                       !.limit = [some |-> TRUE, n |-> 1]] : q \in Queries(files)}
  \cup {[NoCall EXCEPT !.op = "tool", !.phase = "pending", !.args = a] : a \in ToolArgs}
  \cup {[NoCall EXCEPT !.op = "resolve", !.phase = "pending", !.location = Walked(files)[i].path]
          : i \in 1..Len(Walked(files))}
  \cup {[NoCall EXCEPT !.op = "resolve", !.phase = "pending", !.location = NoSuchLocation]}

Init ==
  /\ docset \in Docsets
  /\ tail \in TailModes
  /\ table = NoTable
  /\ prev = NoTable
  /\ call = NoCall
  /\ calls = NoCalls
  /\ dest = NoDest

Request ==
  /\ call.phase = "idle"
  /\ call' \in Requests(docset)
  /\ UNCHANGED <<docset, tail, table, prev, calls, dest>>

Return ==
  /\ call.phase = "done"
  /\ call' = NoCall
  /\ prev' = NoTable
  /\ UNCHANGED <<docset, tail, table, calls, dest>>

\* wrm-index: index(config)
IndexCall ==
  /\ call.phase = "pending" /\ call.op = "index"
  /\ \E ord \in Orders(docset) :
       \E r \in {Index(ord, table, tail)} :
       /\ table' = r.table
       /\ call' = [call EXCEPT !.phase = "done", !.err = r.err, !.indexed = (r.err = "none"),
                               !.entries = r.entries]
  /\ prev' = table
  /\ UNCHANGED <<docset, tail, calls, dest>>

\* search_crate_type_definitions(crate_name, crate_version, query, kinds, limit)
SearchCall ==
  /\ call.phase = "pending" /\ call.op = "search"
  /\ \E ord \in Orders(docset) :
       \E r \in {SearchCrateTypeDefinitions(docset, ord, table, tail, call.query, call.kinds,
                                              call.limit)} :
       /\ table' = r.table
       /\ call' = [call EXCEPT !.phase = "done", !.err = r.err,
                               !.indexed = r.indexed,
                               !.entries = r.entries, !.rowids = r.rowids,
                               !.locations = r.locations, !.items = r.items]
  /\ prev' = table
  /\ UNCHANGED <<docset, tail, calls, dest>>

\* the crate_search_items tool: TryFrom<Value>, then SearchCrateItems::run
ToolCall ==
  /\ call.phase = "pending" /\ call.op = "tool"
  /\ \E parsed \in {SearchCrateItemsTryFrom(call.args)} :
     IF parsed.err # "none"
     THEN /\ call' = [call EXCEPT !.phase = "done", !.err = parsed.err]
          /\ UNCHANGED <<table, prev>>
     ELSE \E ord \in Orders(docset) :
            \E r \in {SearchCrateTypeDefinitions(docset, ord, table, tail, parsed.query,
                                                   parsed.kinds, NoLimit)} :
            /\ table' = r.table
            /\ call' = [call EXCEPT !.phase = "done", !.query = parsed.query,
                                    !.kinds = parsed.kinds, !.err = r.err,
                                    !.indexed = r.indexed,
                                    !.entries = r.entries, !.rowids = r.rowids,
                                    !.locations = r.locations, !.items = r.items]
            /\ prev' = table
  /\ UNCHANGED <<docset, tail, calls, dest>>

\* get_crate_item_resource(uri), the uri being
\* `crate://{crate}/{version}/items/{call.location}`
ResolveCall ==
  /\ call.phase = "pending" /\ call.op = "resolve"
  /\ \E ord \in Orders(docset) :
       \E r \in {GetCrateItemResource(docset, ord, table, tail, call.location)} :
       /\ table' = r.table
       /\ call' = [call EXCEPT !.phase = "done", !.err = r.err,
                               !.indexed = r.indexed,
                               !.entries = r.entries, !.item = r.item]
  /\ prev' = table
  /\ UNCHANGED <<docset, tail, calls, dest>>

Next == Request \/ IndexCall \/ SearchCall \/ ToolCall \/ ResolveCall \/ Return

Spec == Init /\ [][Next]_vars

(***************************************************************************)
(* parse_rustdoc_file on one file of any name and text.                    *)
(***************************************************************************)
\* the end of a line
NEWLINE == "NEWLINE"

Tokens == {TEXT, TITLE, HEADEND, BADUTF8, NEWLINE}

RECURSIVE SeqsUpTo(_, _)
SeqsUpTo(S, n) ==
  IF n = 0 THEN {<<>>}
  ELSE SeqsUpTo(S, n - 1)
       \cup {Append(q, c) : q \in {x \in SeqsUpTo(S, n - 1) : Len(x) = n - 1}, c \in S}

\* the texts of up to MaxTextTokens tokens, as the lines read_line gives
Texts == {Split(t, NEWLINE) : t \in SeqsUpTo(Tokens, MaxTextTokens)}

\* file names of every shape: a module page, symbol pages with and without
\* nested items, an unrecognized kind token, two segments that are not a
\* module page, and a name that does not end in `.html`
ParseNames ==
  { INDEX \o DOT \o HTML,
    SymbolFileName(<<"f", "n">>, <<"a">>),
    SymbolFileName(<<"e", "n", "u", "m">>, <<"A">>),
    SymbolFileName(<<"z", "z">>, <<"a">>),
    <<"a", "l", "l">> \o DOT \o HTML,
    <<"f", "n">> \o DOT \o <<"a">> \o DOT \o <<"j", "s">> }

ParseFiles ==
  {File(<<CrateDir, ModuleDir>>, n, t, <<METHOD_PREFIX \o <<"f">>>>, <<VARIANT_PREFIX \o <<"V">>>>, TRUE)
     : n \in ParseNames, t \in Texts}

InitParse ==
  /\ docset \in {{f} : f \in ParseFiles}
  /\ tail = "ignored"
  /\ table = NoTable
  /\ prev = NoTable
  /\ call = NoCall
  /\ calls = NoCalls
  /\ dest = NoDest

\* parse_rustdoc_file(root, file_path, module_path) on the file
ParseCall ==
  /\ call.phase = "idle"
  /\ \E f \in docset :
       \E r \in {ParseRustdocFile(f, ModuleDir)} :
       call' = [call EXCEPT !.op = "parse", !.phase = "done", !.err = r.err, !.entries = r.entries]
  /\ UNCHANGED <<docset, tail, table, prev, calls, dest>>

NextParse == ParseCall \/ Return

SpecParse == InitParse /\ [][NextParse]_vars

(***************************************************************************)
(* Calls that run at the same time.  Each caller runs its call statement   *)
(* by statement against the one SQLite file: the walk, DROP TABLE, CREATE  *)
(* TABLE, the INSERT transaction, then the SELECT and the lookups of       *)
(* Docs::item.  A statement outside a transaction commits on its own.  A   *)
(* caller that iterates the rows of its SELECT keeps the file read-locked  *)
(* until the loop ends; a write of another caller waits for the lock and   *)
(* fails when the busy timeout runs out.                                   *)
(***************************************************************************)
\* the callers
NumCallers == 2

Callers == 1..NumCallers

\* the docsets of the concurrent calls: the two pages of the crate's root
\* module that give the name `a`
ConcFiles == {f \in FileUniverse : f.dir = <<CrateDir>> /\ Split(f.name, ".")[2] = <<"a">>}

ConcDocsets == {d \in Docsets : d \subseteq ConcFiles}

ConcQueries == {<<"a">>}

IdleCall ==
  [op |-> "none", pc |-> "idle", ord |-> <<>>, query |-> <<>>, location |-> <<>>,
   entries |-> <<>>, locations |-> <<>>, items |-> <<>>, err |-> "none"]

\* a call that ended with the error e
Failed(c, e) == [c EXCEPT !.pc = "done", !.err = e, !.locations = <<>>, !.items = <<>>]

\* the calls a caller can start on the docset
ConcRequests(files) ==
  {[IdleCall EXCEPT !.op = "search", !.ord = ord, !.query = q]
     : ord \in Orders(files), q \in ConcQueries}
  \cup {[IdleCall EXCEPT !.op = "resolve", !.ord = ord, !.location = Walked(files)[i].path]
          : ord \in Orders(files), i \in 1..Len(Walked(files))}

InitConc ==
  /\ docset \in ConcDocsets
  /\ tail \in TailModes
  /\ table \in {NoTable} \cup {Index(ord, NoTable, tail).table : ord \in Orders(docset)}
  /\ prev = NoTable
  /\ call = NoCall
  /\ calls = [p \in Callers |-> IdleCall]
  /\ dest = NoDest

\* another caller iterates the rows of its SELECT
Busy(p) == \E q \in Callers \ {p} : calls[q].pc = "rows"

\* the call starts: index walks the docset
Start(p) ==
  /\ calls[p].pc = "idle"
  /\ \E c \in ConcRequests(docset) :
       \E w \in {RecursiveWalk(c.ord, <<>>, <<>>)} :
         calls' = [calls EXCEPT ![p] = IF w.err # "none" THEN Failed(c, w.err)
                                       ELSE [c EXCEPT !.pc = "walked", !.entries = w.entries]]
  /\ UNCHANGED <<docset, tail, table, prev, call, dest>>

\* generate_sqlite_index: conn.execute("DROP TABLE IF EXISTS searchIndex;")
DropStep(p) ==
  /\ calls[p].pc = "walked" /\ ~Busy(p)
  /\ \E r \in {Execute(<<"DROP TABLE IF EXISTS searchIndex">>, table, tail)} :
       /\ table' = r.table
       /\ calls' = [calls EXCEPT ![p] = IF r.err # "none" THEN Failed(@, r.err)
                                         ELSE [@ EXCEPT !.pc = "dropped"]]
  /\ UNCHANGED <<docset, tail, prev, call, dest>>

\* generate_sqlite_index: conn.execute("CREATE TABLE ...; CREATE UNIQUE INDEX ...;")
CreateStep(p) ==
  /\ calls[p].pc = "dropped" /\ ~Busy(p)
  /\ \E r \in {Execute(<<"CREATE TABLE searchIndex", "CREATE UNIQUE INDEX anchor">>, table, tail)} :
       /\ table' = r.table
       /\ calls' = [calls EXCEPT ![p] = IF r.err # "none" THEN Failed(@, r.err)
                                         ELSE [@ EXCEPT !.pc = "created"]]
  /\ UNCHANGED <<docset, tail, prev, call, dest>>

\* generate_sqlite_index: the transaction of the INSERTs, up to its commit
InsertStep(p) ==
  /\ calls[p].pc = "created" /\ ~Busy(p)
  /\ \E r \in {InsertAll(calls[p].entries, table.rows, table.unique)} :
       IF ~table.exists \/ r.err # "none"
       THEN /\ calls' = [calls EXCEPT ![p] = Failed(@, "Sqlite")]
            /\ table' = table
       ELSE /\ calls' = [calls EXCEPT ![p].pc = "built"]
            /\ table' = [table EXCEPT !.rows = r.rows]
  /\ UNCHANGED <<docset, tail, prev, call, dest>>

\* a write that waited for the read lock of another caller until the busy
\* timeout ran out
BusyTimeout(p) ==
  /\ calls[p].pc \in {"walked", "dropped", "created"} /\ Busy(p)
  /\ calls' = [calls EXCEPT ![p] = Failed(@, "Sqlite")]
  /\ UNCHANGED <<docset, tail, table, prev, call, dest>>

\* search_crate_type_definitions: the SELECT is prepared and run
SelectStep(p) ==
  /\ calls[p].pc = "built" /\ calls[p].op = "search"
  /\ IF ~table.exists
     THEN calls' = [calls EXCEPT ![p] = Failed(@, "Sqlite")]
     ELSE \E rowids \in {Select(table.rows, calls[p].query, {}, NoLimit)} :
            calls' = [calls EXCEPT ![p] = [@ EXCEPT !.pc = IF rowids = <<>> THEN "done" ELSE "rows",
                                                    !.locations = Locations(table.rows, rowids)]]
  /\ UNCHANGED <<docset, tail, table, prev, call, dest>>

\* search_crate_type_definitions: one round of the `for row in rows` loop
ItemStep(p) ==
  /\ calls[p].pc = "rows"
  /\ \E r \in {DocsItem(table, docset, calls[p].locations[Len(calls[p].items) + 1])} :
       calls' = [calls EXCEPT ![p] =
                   IF r.err # "none" THEN Failed(@, r.err)
                   ELSE [@ EXCEPT !.items = Append(@, r.item),
                                  !.pc = IF Len(calls[p].items) + 1 = Len(calls[p].locations)
                                         THEN "done" ELSE "rows"]]
  /\ UNCHANGED <<docset, tail, table, prev, call, dest>>

\* get_crate_item_resource: Docs::item(path)
ResolveStep(p) ==
  /\ calls[p].pc = "built" /\ calls[p].op = "resolve"
  /\ \E r \in {DocsItem(table, docset, UriItemPath(calls[p].location))} :
       calls' = [calls EXCEPT ![p] = IF r.err # "none" THEN Failed(@, r.err)
                                       ELSE [@ EXCEPT !.pc = "done", !.items = <<r.item>>]]
  /\ UNCHANGED <<docset, tail, table, prev, call, dest>>

NextConc ==
  \E p \in Callers :
    \/ Start(p)
    \/ DropStep(p)
    \/ CreateStep(p)
    \/ InsertStep(p)
    \/ BusyTimeout(p)
    \/ SelectStep(p)
    \/ ItemStep(p)
    \/ ResolveStep(p)

SpecConc == InitConc /\ [][NextConc]_vars

(***************************************************************************)
(* wrm-dl: download.  The archive is the sequence of its files, each told  *)
(* by the top-level directory it lies in; the destination directory holds  *)
(* the files of the archive that are on disk.  A download attempt can fail *)
(* at each of its steps, and leaves on disk what it wrote until then.      *)
(***************************************************************************)
\* the files of the largest archive
MaxArchive == 3

\* config.crate_name
DlCrateName == "k"

\* the top-level directories of an archive: the crate's own, `src`, and
\* the one of another platform
DlDirs == {DlCrateName, "src", "x86_64-pc-windows-msvc"}

Archives == {a \in SeqsUpTo(DlDirs, MaxArchive) : a # <<>>}

\* the top-level directories sanitize keeps
KeptDirs == {DlCrateName, "src", "implementors"}

\* the steps of download where an attempt can fail
DlSteps == {"head", "get", "unzip", "sanitize", "rewrite_urls"}

\* the top-level directories of the destination that sanitize removes
Removable(d) == {d.archive[i] : i \in d.files} \ KeptDirs

\* how an attempt goes: no failure, or a failure at one step; unzip fails
\* after it wrote the first n files of the archive, sanitize after it
\* removed the directories `removed`
DlFaults(d) ==
  {[at |-> "none", n |-> 0, removed |-> {}]}
  \cup {[at |-> st, n |-> 0, removed |-> {}] : st \in DlSteps \ {"unzip", "sanitize"}}
  \cup {[at |-> "unzip", n |-> n, removed |-> {}] : n \in 0..(Len(d.archive) - 1)}
  \cup {[at |-> "sanitize", n |-> 0, removed |-> r] : r \in SUBSET (DlDirs \ KeptDirs)}

\* unzip(bytes, destination), writing the first n files of the archive
Unzip(d, n) == [d EXCEPT !.exists = (n > 0), !.files = 1..n]

\* sanitize(destination, crate_name), removing the directories `removed`
SanitizeRemoving(d, removed) == [d EXCEPT !.files = {i \in d.files : d.archive[i] \notin removed}]

Sanitize(d) == SanitizeRemoving(d, Removable(d))

\* download from the unzip on
DownloadUnzipped(d, fault) ==
  IF fault.at = "sanitize"
  THEN [err |-> "Io", dest |-> SanitizeRemoving(d, fault.removed \cap Removable(d))]
  ELSE IF fault.at = "rewrite_urls" THEN [err |-> "Reqwest", dest |-> Sanitize(d)]
  ELSE [err |-> "none", dest |-> Sanitize(d)]

\* download(config): [err, dest]
Download(d, fault) ==
  IF fault.at = "head" THEN [err |-> "Reqwest", dest |-> d]
  ELSE IF d.exists THEN [err |-> "none", dest |-> d]
  ELSE IF fault.at = "get" THEN [err |-> "Reqwest", dest |-> d]
  ELSE IF fault.at = "unzip" THEN [err |-> "Io", dest |-> Unzip(d, fault.n)]
  ELSE DownloadUnzipped(Unzip(d, Len(d.archive)), fault)

InitDl ==
  /\ docset = {}
  /\ tail = "ignored"
  /\ table = NoTable
  /\ prev = NoTable
  /\ call = NoCall
  /\ calls = NoCalls
  /\ dest \in {[NoDest EXCEPT !.archive = a] : a \in Archives}

DownloadCall ==
  /\ call.phase = "idle"
  /\ \E fault \in DlFaults(dest) :
       \E r \in {Download(dest, fault)} :
         /\ dest' = r.dest
         /\ call' = [NoCall EXCEPT !.op = "download", !.phase = "done", !.err = r.err]
  /\ UNCHANGED <<docset, tail, table, prev, calls>>

NextDl == DownloadCall \/ Return

SpecDl == InitDl /\ [][NextDl]_vars

(***************************************************************************)
(* wrm-docs: the source reference of an item.  Docs::item takes the href   *)
(* of the first `a.src` element of the page, joins it to the directory of  *)
(* the page under the docset root, canonicalizes the path against the file *)
(* system and strips the root from the text of the result.  An absolute    *)
(* path is the sequence of its components.                                 *)
(***************************************************************************)
\* the components of the longest href
MaxHrefParts == 4

DOTDOT == <<".", ".">>

\* self.root, canonical: `/d`
SrcRoot == <<<<"d">>>>

\* the text of an absolute path
PathString(comps) == SLASH \o Join(comps, SLASH)

\* the files outside the pages that may exist: one under the root, one in
\* the sibling directory `/dd`
SrcFiles == {SrcRoot \o <<<<"s", "r", "c">>, <<"x">>>>, <<<<"d", "d">>, <<"x">>>>}

HrefParts == {DOTDOT, <<"s", "r", "c">>, <<"d", "d">>, <<"x">>}

\* the href attribute of the page's `a.src` element, if it has one
Hrefs ==
  {[some |-> FALSE, v |-> <<>>]}
  \cup {[some |-> TRUE, v |-> Join(parts, SLASH) \o frag]
          : parts \in SeqsUpTo(HrefParts, MaxHrefParts) \ {<<>>}, frag \in {<<>>, HASH \o <<"1">>}}

\* the pages whose items are resolved
SrcPages == {RelPath(f) : f \in FileUniverse}

\* str::split_once(c).unwrap_or((s, ""))
SplitOnce(s, c) ==
  IF ~HasChar(s, c) THEN <<s, <<>>>>
  ELSE <<Split(s, c)[1], From(s, Len(Split(s, c)[1]) + 2)>>

\* Path::parent of a relative path, as components
Parent(path) == SubSeq(Split(path, "/"), 1, Len(Split(path, "/")) - 1)

\* whether the absolute path names a file or a directory: the root, the
\* directories of the pages, and the files of fs with their directories
PathExists(comps, fs) ==
  \/ \E f \in fs : StartsWith(f, comps)
  \/ StartsWith(SrcRoot, comps)
  \/ \E page \in SrcPages : StartsWith(SrcRoot \o Split(page, "/"), comps)

\* Path::canonicalize: the components are resolved one by one from cur on,
\* `..` leaves the directory, and every path on the way has to exist
RECURSIVE Canonicalize(_, _, _)
Canonicalize(cur, rest, fs) ==
  IF ~PathExists(cur, fs) THEN [ok |-> FALSE, path |-> <<>>]
  ELSE IF rest = <<>> THEN [ok |-> TRUE, path |-> cur]
  ELSE IF Head(rest) = DOTDOT
       THEN Canonicalize(IF cur = <<>> THEN cur ELSE SubSeq(cur, 1, Len(cur) - 1), Tail(rest), fs)
  ELSE Canonicalize(Append(cur, Head(rest)), Tail(rest), fs)

\* the path that the href of the page leads to
SrcTarget(path, href, fs) ==
  Canonicalize(SrcRoot \o Parent(path), Split(SplitOnce(href.v, "#")[1], "/"), fs)

\* Docs::item: src_path, for the page at `path` with the href
SrcPath(path, href, fs) ==
  IF ~href.some \/ ~SrcTarget(path, href, fs).ok THEN [some |-> FALSE, rest |-> <<>>]
  ELSE StripPrefix(PathString(SrcTarget(path, href, fs).path) \o HASH \o SplitOnce(href.v, "#")[2],
                   PathString(SrcRoot))

InitSrc ==
  /\ docset = {}
  /\ tail = "ignored"
  /\ table = NoTable
  /\ prev = NoTable
  /\ call \in {[op |-> "item", phase |-> "pending", location |-> page, href |-> href, fs |-> fs,
                err |-> "none", src_path |-> [some |-> FALSE, rest |-> <<>>]]
                 : page \in SrcPages, href \in Hrefs, fs \in SUBSET SrcFiles}
  /\ calls = NoCalls
  /\ dest = NoDest

\* Docs::item from the selected element on
ItemSrcCall ==
  /\ call.phase = "pending" /\ call.op = "item"
  /\ call' = [call EXCEPT !.phase = "done",
                          !.src_path = SrcPath(call.location, call.href, call.fs)]
  /\ UNCHANGED <<docset, tail, table, prev, calls, dest>>

SpecSrc == InitSrc /\ [][ItemSrcCall]_vars

(***************************************************************************)
(* The calls on docsets whose pages give entries that the ORDER BY of the  *)
(* search cannot tell apart: names of one length, locations of one length. *)
(* The page of `d` has no #main-content element.                           *)
(***************************************************************************)
TieFiles ==
  { File(<<CrateDir>>, SymbolFileName(<<"f", "n">>, <<"a">>), PageLines, <<>>, <<>>, TRUE),
    File(<<CrateDir>>, SymbolFileName(<<"f", "n">>, <<"b">>), PageLines, <<>>, <<>>, TRUE),
    File(<<CrateDir>>, SymbolFileName(<<"f", "n">>, <<"d">>), PageLines, <<>>, <<>>, FALSE) }

InitTie ==
  /\ docset \in SUBSET TieFiles \ {{}}
  /\ tail \in TailModes
  /\ table = NoTable
  /\ prev = NoTable
  /\ call = NoCall
  /\ calls = NoCalls
  /\ dest = NoDest

SpecTie == InitTie /\ [][Next]_vars

(***************************************************************************)
(* wrm-mcp: truncate_resources.  A content is a resource with its uri and  *)
(* the byte length of its text, or the text of a note.                     *)
(***************************************************************************)
\* the resources of the longest response
MaxResources == 3

\* 256 * 1024
MAX_RESPONSE_SIZE_BYTES == 262144

\* the byte lengths of the texts of the resources
ResourceSizes == {0, 1, 131072, 262144, 262145}

\* Content::Resource: the i-th resource of a response
Resource(i, bytes) == [kind |-> "resource", uri |-> i, bytes |-> bytes, total |-> 0, len |-> 0]

\* Content::text("NOTE: Query returned {total} matches, but only showing {len} ...")
Note(total, len) == [kind |-> "text", uri |-> 0, bytes |-> 0, total |-> total, len |-> len]

\* the responses of the tools: resources only
Responses ==
  {[i \in 1..Len(sizes) |-> Resource(i, sizes[i])] : sizes \in SeqsUpTo(ResourceSizes, MaxResources)}

\* what a content adds to `bytes`
TextLen(c) == IF c.kind = "resource" THEN c.bytes ELSE 0

\* content.iter().fold(0, ..)
RECURSIVE FoldBytes(_)
FoldBytes(content) ==
  IF content = <<>> THEN 0 ELSE TextLen(Head(content)) + FoldBytes(Tail(content))

\* the `while` loop with the bound reached at the limit already
RECURSIVE PopWhileOverOrAt(_, _)
PopWhileOverOrAt(content, bytes) ==
  IF bytes >= MAX_RESPONSE_SIZE_BYTES /\ Len(content) # 1 /\ content # <<>>
  THEN PopWhileOverOrAt(SubSeq(content, 1, Len(content) - 1), bytes - TextLen(content[Len(content)]))
  ELSE content

\* the `while bytes > MAX_RESPONSE_SIZE_BYTES` loop
RECURSIVE PopWhileOver(_, _)
PopWhileOver(content, bytes) ==
  IF bytes > MAX_RESPONSE_SIZE_BYTES /\ Len(content) # 1 /\ content # <<>>
  THEN PopWhileOver(SubSeq(content, 1, Len(content) - 1), bytes - TextLen(content[Len(content)]))
  ELSE content

\* truncate_resources from the end of the loop on
TruncateResourcesPopped(total, kept) ==
  IF Len(kept) # total THEN Append(kept, Note(total, Len(kept))) ELSE kept

\* truncate_resources(content)
TruncateResources(content) ==
  TruncateResourcesPopped(Len(content), PopWhileOver(content, FoldBytes(content)))

InitTrunc ==
  /\ docset = {}
  /\ tail = "ignored"
  /\ table = NoTable
  /\ prev = NoTable
  /\ call \in {[op |-> "truncate", phase |-> "pending", content |-> c, out |-> <<>>] : c \in Responses}
  /\ calls = NoCalls
  /\ dest = NoDest

TruncateCall ==
  /\ call.phase = "pending" /\ call.op = "truncate"
  /\ call' = [call EXCEPT !.phase = "done", !.out = TruncateResources(call.content)]
  /\ UNCHANGED <<docset, tail, table, prev, calls, dest>>

SpecTrunc == InitTrunc /\ [][TruncateCall]_vars

(***************************************************************************)
(* wrm-index: index on docsets with directories of every kind: a top-level *)
(* directory that is not the crate's, the excluded names at the root, in   *)
(* the crate's directory and in a module, and pages of the kinds that do   *)
(* and do not carry nested entries.  config.source is a directory, a file  *)
(* or missing, and a store of an earlier run may exist.                    *)
(***************************************************************************)
SrcDir == <<"s", "r", "c">>

\* a top-level directory of another platform
PlatformDir == <<"p">>

FnPage == SymbolFileName(<<"f", "n">>, <<"a">>)

WalkFiles ==
  { File(<<CrateDir>>, FnPage, PageLines, <<>>, <<>>, TRUE),
    File(<<CrateDir, SrcDir>>, FnPage, PageLines, <<>>, <<>>, TRUE),
    File(<<SrcDir>>, FnPage, PageLines, <<>>, <<>>, TRUE),
    File(<<PlatformDir>>, FnPage, PageLines, <<>>, <<>>, TRUE),
    File(<<CrateDir, ModuleDir>>, FnPage, PageLines, <<>>, <<>>, TRUE),
    File(<<CrateDir, ModuleDir, SrcDir>>, FnPage, PageLines, <<>>, <<>>, TRUE),
    File(<<CrateDir>>, SymbolFileName(<<"t", "y", "p", "e">>, <<"T">>), PageLines, <<>>, <<>>, TRUE),
    File(<<CrateDir>>, SymbolFileName(<<"t", "y", "p", "e">>, <<"U">>), PageLines,
         <<METHOD_PREFIX \o <<"f">>>>, <<VARIANT_PREFIX \o <<"V">>>>, TRUE),
    File(<<CrateDir>>, SymbolFileName(<<"t", "r", "a", "i", "t">>, <<"R">>), PageLines,
         <<METHOD_PREFIX \o <<"f">>>>, <<VARIANT_PREFIX \o <<"V">>>>, TRUE),
    File(<<CrateDir>>, SymbolFileName(<<"f", "n">>, <<"g">>), PageLines,
         <<METHOD_PREFIX \o <<"f">>>>, <<VARIANT_PREFIX \o <<"V">>>>, TRUE),
    File(<<CrateDir>>, SymbolFileName(<<"e", "n", "u", "m">>, <<"E">>), PageLines,
         <<METHOD_PREFIX \o <<"f">>, <<"x">>>>, <<VARIANT_PREFIX \o <<"V">>, <<"y">>>>, TRUE),
    File(<<CrateDir>>, SymbolFileName(<<"z", "z">>, <<"a">>), PageLines, <<>>, <<>>, TRUE),
    File(<<CrateDir>>, SymbolFileName(<<"f", "n">>, <<"b">>), <<<<BADUTF8>>>>, <<>>, <<>>, TRUE) }

WalkDocsets == {d \in SUBSET WalkFiles : Cardinality(d) \in 1..MaxFiles}

\* config.source: a directory, a file, or nothing
Sources == {"dir", "file", "missing"}

\* the store of an earlier run, on an earlier content of the directory
OldStore == [exists |-> TRUE, unique |-> FALSE,
             rows |-> <<[name |-> <<"o">>, ty |-> "Function",
                         path |-> Join(<<CrateDir, SymbolFileName(<<"f", "n">>, <<"o">>)>>, SLASH)]>>]

\* index(config) that opens the store and drops the table before it looks
\* at config.source
IndexSourceDropFirst(source, ord, t, mode) ==
  IF source = "missing" THEN [err |-> "SourceNotFound", table |-> NoTable, entries |-> <<>>]
  ELSE IF source = "file" THEN [err |-> "SourceNotDirectory", table |-> NoTable, entries |-> <<>>]
  ELSE Index(ord, NoTable, mode)

\* index(config), config.source checked first
IndexSource(source, ord, t, mode) ==
  IF source = "missing" THEN [err |-> "SourceNotFound", table |-> t, entries |-> <<>>]
  ELSE IF source = "file" THEN [err |-> "SourceNotDirectory", table |-> t, entries |-> <<>>]
  ELSE Index(ord, t, mode)

InitWalk ==
  /\ docset \in WalkDocsets
  /\ tail \in TailModes
  /\ table \in {NoTable, OldStore}
  /\ prev = NoTable
  /\ call = NoCall
  /\ calls = NoCalls
  /\ dest = NoDest

WalkRequest ==
  /\ call.phase = "idle"
  /\ call' \in {[NoCall EXCEPT !.op = "index", !.phase = "pending", !.location = <<source>>]
                  : source \in Sources}
  /\ UNCHANGED <<docset, tail, table, prev, calls, dest>>

\* wrm-index: index(config), call.location[1] being what config.source is
WalkIndexCall ==
  /\ call.phase = "pending" /\ call.op = "index"
  /\ \E ord \in Orders(docset) :
       \E r \in {IndexSource(call.location[1], ord, table, tail)} :
       /\ table' = r.table
       /\ call' = [call EXCEPT !.phase = "done", !.err = r.err, !.indexed = (r.err = "none"),
                               !.entries = r.entries]
  /\ prev' = table
  /\ UNCHANGED <<docset, tail, calls, dest>>

\* the caller goes on; the store stays
WalkReturn ==
  /\ call.phase = "done"
  /\ call' = NoCall
  /\ UNCHANGED <<docset, tail, table, prev, calls, dest>>

NextWalk == WalkRequest \/ WalkIndexCall \/ WalkReturn

SpecWalk == InitWalk /\ [][NextWalk]_vars

(***************************************************************************)
(* crate_resource: the URI of a resource, read from a Url by               *)
(* CrateUri::try_from, and read again by the downloader's Config::try_from *)
(* when the resource is a page or a source file.  A Url is what Url::parse *)
(* gives: a scheme, a host or none, the path as one string, a fragment or  *)
(* none.                                                                   *)
(***************************************************************************)
\* the most path segments of a Url
MaxSegments == 3

CRATE == "crate"

LATEST == <<"l", "a", "t", "e", "s", "t">>

README == <<"r", "e", "a", "d", "m", "e">>

ITEMS == <<"i", "t", "e", "m", "s">>

DIGITS == {"0", "1", "2", "3", "4", "5", "6", "7", "8", "9"}

\* the segments a path is made of: a partial, a full and a zero-led version,
\* `latest`, the roots in either case, a name that is no root, the empty one
UriSegments ==
  {<<"1">>, <<"1", ".", "0", ".", "0">>, <<"0", "1", ".", "0", ".", "0">>, LATEST,
   ITEMS, <<"I", "t", "e", "m", "s">>, SrcDir, README, <<"a">>, <<>>}

\* the paths of a Url of the scheme: none, or `/` before every segment
UriPaths ==
  {<<>>} \cup {SLASH \o Join(segs, SLASH)
                 : segs \in UNION {[1..n -> UriSegments] : n \in 1..MaxSegments}}

\* the Urls that Url::parse gives
Urls ==
  {[scheme |-> s, host |-> h, path |-> p, fragment |-> f]
     : s \in {CRATE, "http"}, h \in {Absent, Present(<<"k">>)}, p \in UriPaths,
       f \in {Absent, Present(METHOD_PREFIX \o <<"f">>)}}

\* Url::path_segments: none unless the path starts with `/`
PathSegments(uri) ==
  IF StartsWith(uri.path, SLASH) THEN Present(Split(From(uri.path, 2), "/")) ELSE Absent

\* PathRoot::as_str
AsStr(root) ==
  IF root = "Readme" THEN README ELSE IF root = "Items" THEN ITEMS ELSE SrcDir

\* PathRoot::from_str on the segment as it is written
PathRootFromStrExact(s) ==
  IF s = README THEN [ok |-> TRUE, root |-> "Readme"]
  ELSE IF s = ITEMS THEN [ok |-> TRUE, root |-> "Items"]
  ELSE IF s = SrcDir THEN [ok |-> TRUE, root |-> "Src"]
  ELSE [ok |-> FALSE, root |-> "none"]

\* PathRoot::from_str
PathRootFromStr(s) ==
  IF ToLowercase(s) = README THEN [ok |-> TRUE, root |-> "Readme"]
  ELSE IF ToLowercase(s) = ITEMS THEN [ok |-> TRUE, root |-> "Items"]
  ELSE IF ToLowercase(s) = SrcDir THEN [ok |-> TRUE, root |-> "Src"]
  ELSE [ok |-> FALSE, root |-> "none"]

\* the CrateUri that try_from starts from
EmptyCrateUri ==
  [name |-> <<>>, version |-> Absent, root |-> Absent, path |-> <<>>, fragment |-> Absent]

InvalidResourceUri == [err |-> "InvalidResourceUri", uri |-> EmptyCrateUri]

\* CrateUri::try_from, from the first segment on
CrateUriFromSegments(uri, segments) ==
  IF Len(segments) >= 2 /\ ~PathRootFromStr(segments[2]).ok THEN InvalidResourceUri
  ELSE [err |-> "none",
        uri |-> [name |-> uri.host.v,
                 version |-> Present(segments[1]),
                 root |-> IF Len(segments) >= 2
                          THEN [some |-> TRUE, v |-> PathRootFromStr(segments[2]).root]
                          ELSE Absent,
                 path |-> Join(SubSeq(segments, 3, Len(segments)), SLASH),
                 fragment |-> uri.fragment]]

\* CrateUri::try_from(&Url)
CrateUriTryFrom(uri) ==
  IF uri.scheme # CRATE THEN InvalidResourceUri
  ELSE IF ~uri.host.some THEN InvalidResourceUri
  ELSE IF ~PathSegments(uri).some
       THEN [err |-> "none", uri |-> [EmptyCrateUri EXCEPT !.name = uri.host.v]]
  ELSE CrateUriFromSegments(uri, PathSegments(uri).v)

\* PathBuf::iter: the root when the path starts at it, then the names
Components(path) ==
  (IF StartsWith(path, SLASH) THEN <<SLASH>> ELSE <<>>)
  \o SelectSeq(Split(path, "/"), LAMBDA p : p # <<>>)

\* PathSegmentsMut::push: a `/` in the segment is written as %2F
PushSegment(path, segment) ==
  path \o SLASH \o Replace(segment, "/", <<"%", "2", "F">>)

RECURSIVE PushAll(_, _)
PushAll(path, segments) ==
  IF segments = <<>> THEN path
  ELSE PushAll(PushSegment(path, Head(segments)), Tail(segments))

\* Url::from(&CrateUri)
UrlFrom(uri) ==
  [scheme |-> CRATE,
   host |-> Present(uri.name),
   path |-> PushAll(<<>>, (IF uri.version.some THEN <<uri.version.v>> ELSE <<>>)
                          \o (IF uri.root.some THEN <<AsStr(uri.root.v)>> ELSE <<>>)
                          \o Components(uri.path)),
   fragment |-> uri.fragment]

\* a numeric identifier of semver: digits, with no zero before another digit
IsNumericIdentifier(p) ==
  /\ p # <<>>
  /\ \A i \in 1..Len(p) : p[i] \in DIGITS
  /\ (Len(p) = 1 \/ p[1] # "0")

\* semver::Version::parse: whether the text is major.minor.patch, with a
\* pre-release after `-` and a build after `+` that are not empty when given
SemverParse(version) ==
  /\ Len(Split(SplitOnce(SplitOnce(version, "+")[1], "-")[1], ".")) = 3
  /\ \A i \in 1..3 :
       IsNumericIdentifier(Split(SplitOnce(SplitOnce(version, "+")[1], "-")[1], ".")[i])
  /\ (HasChar(version, "+") => SplitOnce(version, "+")[2] # <<>>)
  /\ (HasChar(SplitOnce(version, "+")[1], "-")
        => SplitOnce(SplitOnce(version, "+")[1], "-")[2] # <<>>)

ConfigErr(msg) == [err |-> "Config", msg |-> msg, crate_name |-> <<>>, version |-> Absent]

\* wrm_dl Config::try_from(&Url)
ConfigTryFrom(uri) ==
  IF uri.scheme # CRATE THEN ConfigErr("Invalid URI scheme")
  ELSE IF ~uri.host.some THEN ConfigErr("Missing crate name in URI")
  ELSE IF ~PathSegments(uri).some THEN ConfigErr("Missing version in URI")
  ELSE IF PathSegments(uri).v[1] # LATEST /\ ~SemverParse(PathSegments(uri).v[1])
       THEN ConfigErr("invalid version format")
  ELSE [err |-> "none", msg |-> "", crate_name |-> uri.host.v,
        version |-> Present(PathSegments(uri).v[1])]

\* the resource was not fetched
NotFetched == [err |-> "none", msg |-> "not fetched", crate_name |-> <<>>, version |-> Absent]

\* CrateResource::run on the parsed uri, as far as the downloader's check:
\* only a page or a source file is fetched through it
RunFetch(uri) ==
  IF uri.version.some /\ uri.root.some /\ uri.root.v \in {"Items", "Src"} /\ uri.path # <<>>
  THEN ConfigTryFrom(UrlFrom(uri))
  ELSE NotFetched

InitUri ==
  /\ docset = {}
  /\ tail = "ignored"
  /\ table = NoTable
  /\ prev = NoTable
  /\ call \in {[op |-> "crate_resource", phase |-> "pending", url |-> u,
                parsed |-> InvalidResourceUri, fetch |-> NotFetched] : u \in Urls}
  /\ calls = NoCalls
  /\ dest = NoDest

\* CrateResource::try_from, and run when the uri was accepted
CrateResourceCall ==
  /\ call.phase = "pending" /\ call.op = "crate_resource"
  /\ \E r \in {CrateUriTryFrom(call.url)} :
       call' = [call EXCEPT !.phase = "done", !.parsed = r,
                            !.fetch = IF r.err = "none" THEN RunFetch(r.uri) ELSE NotFetched]
  /\ UNCHANGED <<docset, tail, table, prev, calls, dest>>

SpecUri == InitUri /\ [][CrateResourceCall]_vars

(***************************************************************************)
(* wrm_docs: find_documentation, the search for the documentation of the   *)
(* element that a fragment selects.  A document is a tree of nodes 1..n:   *)
(* node 1 is the root, parents[i] is the parent of node i and comes before *)
(* it, and the children of a node stand in the order of their numbers.     *)
(* The recursion is run one step at a time on a stack of frames, one frame *)
(* for each call of find_documentation that has not returned.              *)
(***************************************************************************)
\* the most nodes of a document
MaxNodes == 4

\* the frames that the thread's stack has room for
MaxStack == MaxNodes + 2

\* the documents, with the nodes that carry the class `docblock`
Documents ==
  UNION {{[parents |-> p, docblock |-> d]
            : p \in {q \in [1..n -> 0..(n - 1)] : \A i \in 1..n : q[i] < i /\ (q[i] = 0 <=> i = 1)},
              d \in SUBSET (1..n)}
           : n \in 1..MaxNodes}

\* Selection::parent with the root as its own parent
ParentOrSelf(parents, n) == IF parents[n] = 0 THEN n ELSE parents[n]

\* Selection::parent: the parent of the node, 0 for an empty selection
ParentOf(parents, n) == parents[n]

\* Selection::next_sibling: the sibling after the node, 0 for none
NextSibling(parents, n) ==
  IF \E m \in DOMAIN parents : m > n /\ parents[m] = parents[n]
  THEN CHOOSE m \in DOMAIN parents :
         /\ m > n /\ parents[m] = parents[n]
         /\ \A k \in DOMAIN parents : (k > n /\ parents[k] = parents[n]) => m <= k
  ELSE 0

\* Element::has_class("docblock")
HasClass(doc, n) == n \in doc.docblock

\* the result of a call: none, or the inner_html of the node v
NoDocumentation == [some |-> FALSE, v |-> 0]

InnerHtml(n) == [some |-> TRUE, v |-> n]

\* the call of find_documentation on the node
Frame(n) == [node |-> n, pc |-> "check"]

\* the caller after the call it waits for was made
Calling(stack, pc, n) ==
  Append([stack EXCEPT ![Len(stack)].pc = pc], Frame(n))

\* the stack after the call on top has returned
Returned(stack) == SubSeq(stack, 1, Len(stack) - 1)

InitDom ==
  /\ docset = {}
  /\ tail = "ignored"
  /\ table = NoTable
  /\ prev = NoTable
  /\ call \in {[op |-> "find_documentation", doc |-> d, element |-> e,
                stack |-> <<Frame(e)>>, ret |-> NoDocumentation]
                 : d \in Documents, e \in 1..MaxNodes}
  /\ call.element \in DOMAIN call.doc.parents
  /\ calls = NoCalls
  /\ dest = NoDest

\* the frame of the call that runs
Top == call.stack[Len(call.stack)]

\* the call that runs has looked at its siblings and found nothing
SiblingsDone ==
  \/ Top.pc = "up"
  \/ Top.pc = "check" /\ ~HasClass(call.doc, Top.node)
                      /\ NextSibling(call.doc.parents, Top.node) = 0

\* `if element.has_class("docblock") { return Some(element.inner_html()) }`
ReturnDocblock ==
  /\ call.stack # <<>> /\ Top.pc = "check"
  /\ HasClass(call.doc, Top.node)
  /\ call' = [call EXCEPT !.stack = Returned(call.stack), !.ret = InnerHtml(Top.node)]
  /\ UNCHANGED <<docset, tail, table, prev, calls, dest>>

\* `find_documentation(&sibling)` is called
CallSibling ==
  /\ call.stack # <<>> /\ Top.pc = "check"
  /\ ~HasClass(call.doc, Top.node)
  /\ NextSibling(call.doc.parents, Top.node) # 0
  /\ Len(call.stack) < MaxStack
  /\ call' = [call EXCEPT !.stack = Calling(call.stack, "in_sibling",
                                            NextSibling(call.doc.parents, Top.node))]
  /\ UNCHANGED <<docset, tail, table, prev, calls, dest>>

\* the call on the sibling has returned:
\* `if find_documentation(&sibling).is_some() { return Some(sibling.inner_html()) }`
SiblingReturned ==
  /\ call.stack # <<>> /\ Top.pc = "in_sibling"
  /\ IF call.ret.some
     THEN call' = [call EXCEPT !.stack = Returned(call.stack),
                               !.ret = InnerHtml(NextSibling(call.doc.parents, Top.node))]
     ELSE call' = [call EXCEPT !.stack[Len(call.stack)].pc = "up"]
  /\ UNCHANGED <<docset, tail, table, prev, calls, dest>>

\* `if parent.is_empty() { break }`, and the `None` after the loop
ReturnNone ==
  /\ call.stack # <<>> /\ SiblingsDone
  /\ ParentOf(call.doc.parents, Top.node) = 0
  /\ call' = [call EXCEPT !.stack = Returned(call.stack), !.ret = NoDocumentation]
  /\ UNCHANGED <<docset, tail, table, prev, calls, dest>>

\* `find_documentation(&parent)` is called
CallParent ==
  /\ call.stack # <<>> /\ SiblingsDone
  /\ ParentOf(call.doc.parents, Top.node) # 0
  /\ Len(call.stack) < MaxStack
  /\ call' = [call EXCEPT !.stack = Calling(call.stack, "in_parent",
                                            ParentOf(call.doc.parents, Top.node))]
  /\ UNCHANGED <<docset, tail, table, prev, calls, dest>>

\* the call on the parent has returned: its result is returned when it is
\* some, and the loop has no element left when it is none
ParentReturned ==
  /\ call.stack # <<>> /\ Top.pc = "in_parent"
  /\ call' = [call EXCEPT !.stack = Returned(call.stack)]
  /\ UNCHANGED <<docset, tail, table, prev, calls, dest>>

NextDom ==
  \/ ReturnDocblock
  \/ CallSibling
  \/ SiblingReturned
  \/ ReturnNone
  \/ CallParent
  \/ ParentReturned

SpecDom == InitDom /\ [][NextDom]_vars

\* the thread that runs find_documentation keeps running
SpecDomFair == SpecDom /\ WF_vars(NextDom)

(***************************************************************************)
(* Properties.                                                             *)
(***************************************************************************)
SearchDone ==
  call.phase = "done" /\ call.op \in {"search", "tool"} /\ call.err = "none" /\ call.indexed

Unfiltered == call.kinds = {} /\ ~call.limit.some

\* the row of the i-th element of the result
ResultRow(i) == table.rows[call.rowids[i]]

\* the number of times r occurs in rows
Count(r, rows) == Cardinality({i \in 1..Len(rows) : rows[i] = r})

\* C1 as claimed: after the store is built, a search for exactly the name
\* of an entry E of the walker, without kind filter and limit, has E's
\* location as the first element of its result.
C1_ExactNameFirst ==
  (SearchDone /\ Unfiltered) =>
    \A i \in 1..Len(call.entries) :
      call.entries[i].name = call.query =>
        (call.locations # <<>> /\ call.locations[1] = call.entries[i].path)

\* C1 as amended: for an entry E whose name holds no `%`, a successful
\* search for exactly E's name, without kind filter and limit, returns E's
\* location, and every element of the result before it belongs to an entry
\* whose name is the query too.
C1_ExactNameInTopTier ==
  (SearchDone /\ Unfiltered) =>
    \A i \in 1..Len(call.entries) :
      (call.entries[i].name = call.query /\ ~HasChar(call.query, "%")) =>
        \E j \in 1..Len(call.rowids) :
          /\ ResultRow(j) = Row(call.entries[i])
          /\ call.locations[j] = call.entries[i].path
          /\ \A k \in 1..(j - 1) : ResultRow(k).name = call.query

\* a search for the name of an entry that another entry of the same name
\* precedes in the result
C1_Witness ==
  /\ SearchDone /\ Unfiltered /\ call.op = "search"
  /\ \E i \in 1..Len(call.entries) :
       /\ call.entries[i].name = call.query
       /\ ~HasChar(call.query, "%")
       /\ call.locations[1] # call.entries[i].path

\* C2 as claimed: the Item that Docs::item resolves for the location of a
\* Method or Variant entry in a search result has that entry's own name and
\* kind.
C2_ItemOfNestedEntry ==
  SearchDone =>
    \A j \in 1..Len(call.locations) : \A i \in 1..Len(call.entries) :
      (call.entries[i].path = call.locations[j] /\ call.entries[i].ty \in {"Method", "Variant"}) =>
        (call.items[j].path = call.entries[i].name /\ call.items[j].kind = call.entries[i].ty)

\* C3 as claimed: a search for the path of an item qualified with the
\* crate's root name returns the item.
C3_QualifiedQueryFindsItem ==
  (SearchDone /\ Unfiltered) =>
    \A f \in SymbolFiles(docset) :
      call.query = QualifiedName(f) => \E j \in 1..Len(call.locations) : call.locations[j] = RelPath(f)

AllKnownKinds ==
  {"Constant", "Enum", "Function", "Macro", "Method", "Module", "Struct", "Trait", "Type",
   "Variant", "Attribute"}

\* C4: with a non-empty set of kinds every returned entry has one of these
\* kinds; with the empty set the result is that of the set of all kinds.
C4_KindFilter ==
  SearchDone =>
    /\ call.kinds # {} => \A j \in 1..Len(call.rowids) : ResultRow(j).ty \in call.kinds
    /\ call.kinds = {} => call.rowids = Select(table.rows, call.query, AllKnownKinds, call.limit)

\* a search with kinds = {Method} that returns an entry and leaves out a
\* row of another kind that the query matches
C4_Witness ==
  /\ SearchDone /\ call.op = "search" /\ call.kinds = {"Method"}
  /\ call.rowids # <<>>
  /\ \E i \in 1..Len(table.rows) :
       table.rows[i].ty # "Method" /\ Like(table.rows[i].path, FuzzyQuery(call.query))

\* the kinds that the strings of an array name
KindsOf(strs) == {FromStr(strs[i]).ty : i \in 1..Len(strs)}

\* C5 as claimed: a tool call that supplies a non-empty `kinds` argument
\* searches with exactly the supplied kinds, so every returned item has one
\* of them.
C5_SuppliedKindsUsed ==
  (call.phase = "done" /\ call.op = "tool" /\ call.err = "none"
     /\ call.args.kinds.some /\ call.args.kinds.v # <<>>
     /\ \A i \in 1..Len(call.args.kinds.v) : FromStr(call.args.kinds.v[i]).ok) =>
    /\ call.kinds = KindsOf(call.args.kinds.v)
    /\ \A j \in 1..Len(call.rowids) : ResultRow(j).ty \in KindsOf(call.args.kinds.v)

\* the tier of the claim: equality with the wildcard-stripped query, then
\* the query as a suffix and as a prefix, letters compared without case
CaseFold(s) == [i \in 1..Len(s) |-> Lower(s[i])]

ClaimTier(r, q) ==
  IF r.name = q THEN 0
  ELSE IF r.path = q THEN 1
  ELSE IF EndsWith(CaseFold(r.name), CaseFold(q)) THEN 2
  ELSE IF StartsWith(CaseFold(r.name), CaseFold(q)) THEN 3
  ELSE IF EndsWith(CaseFold(r.path), CaseFold(q)) THEN 4
  ELSE IF StartsWith(CaseFold(r.path), CaseFold(q)) THEN 5
  ELSE 6

ClaimOrdered(a, b, q) ==
  \/ ClaimTier(a, q) < ClaimTier(b, q)
  \/ /\ ClaimTier(a, q) = ClaimTier(b, q)
     /\ \/ Len(a.name) < Len(b.name)
        \/ Len(a.name) = Len(b.name) /\ Len(a.path) <= Len(b.path)

\* the query without its `%` characters
Stripped(q) == SelectSeq(q, LAMBDA c : c # "%")

\* C6 as claimed: the result is sorted by ascending tier against the
\* wildcard-stripped query, then by shorter name, then by shorter location.
C6_SortedByTier ==
  SearchDone =>
    \A j \in 1..(Len(call.rowids) - 1) :
      ClaimOrdered(ResultRow(j), ResultRow(j + 1), Stripped(call.query))

\* C7: a search with the empty query, without kind filter and limit,
\* returns every row of the index exactly once.
C7_EmptyQueryReturnsAll ==
  (SearchDone /\ Unfiltered /\ call.query = <<>>) =>
    /\ \A i \in 1..Len(table.rows) :
         Cardinality({j \in 1..Len(call.rowids) : call.rowids[j] = i}) = 1
    /\ \A r \in {table.rows[i].path : i \in 1..Len(table.rows)} :
         Cardinality({j \in 1..Len(call.locations) : call.locations[j] = r})
           = Cardinality({i \in 1..Len(table.rows) : table.rows[i].path = r})

\* a search with the empty query on an index of several rows
C7_Witness ==
  SearchDone /\ Unfiltered /\ call.query = <<>> /\ Len(table.rows) >= 3 /\ Len(call.locations) >= 3

\* C8 as claimed: no two rows of the Index Store have the same name, kind
\* and location.
C8_RowsUnique ==
  \A i, j \in 1..Len(table.rows) : i # j => table.rows[i] # table.rows[j]

\* C9: a rebuild of a store that an earlier run built from the docset
\* leaves the same rows, each as often as before.
C9_RebuildKeepsRows ==
  (call.phase = "done" /\ call.indexed /\ prev.exists) =>
    \A r \in {table.rows[i] : i \in 1..Len(table.rows)} \cup {prev.rows[i] : i \in 1..Len(prev.rows)} :
      Count(r, table.rows) = Count(r, prev.rows)

\* a rebuild whose walk enumerated the directories in another order than
\* the run before it
C9_Witness ==
  /\ call.phase = "done" /\ call.op = "index" /\ call.indexed /\ prev.exists
  /\ Len(table.rows) >= 2
  /\ table.rows # prev.rows

\* the bytes of a token
TokenBytes(tok) ==
  CASE tok = TITLE -> TitleBytes
    [] tok = HEADEND -> HeadEndBytes
    [] tok = TEXT -> TextBytes
    [] OTHER -> 1

RECURSIVE LineBytes(_)
LineBytes(line) == IF line = <<>> THEN 0 ELSE TokenBytes(Head(line)) + LineBytes(Tail(line))

RECURSIVE BytesBefore(_, _)
\* the bytes of the lines before line i, a newline after each
BytesBefore(lines, i) ==
  IF i = 1 THEN 0 ELSE BytesBefore(lines, i - 1) + LineBytes(lines[i - 1]) + 1

\* the first RedirectionWindow bytes of the text hold the whole sentinel
SentinelInWindow(lines) ==
  \E i \in 1..Len(lines) : \E k \in 1..Len(lines[i]) :
    /\ lines[i][k] = TITLE
    /\ BytesBefore(lines, i) + LineBytes(SubSeq(lines[i], 1, k)) <= RedirectionWindow

ParseDone == call.phase = "done" /\ call.op = "parse"

\* C10 as claimed: a file whose first 512 bytes hold the sentinel title
\* yields no entries and no error, whatever its name.
C10_SentinelInFirstBytes ==
  ParseDone =>
    \A f \in docset :
      SentinelInWindow(f.lines) => (call.err = "none" /\ call.entries = <<>>)

\* the sentinel stands on a line that no line with `</head>` precedes, and
\* no line up to the first one with `</head>` holds invalid UTF-8
SentinelInHead(lines) ==
  /\ \E i \in 1..Len(lines) :
       LineHas(lines[i], TITLE) /\ \A j \in 1..(i - 1) : ~LineHas(lines[j], HEADEND)
  /\ \A i \in 1..Len(lines) :
       LineHas(lines[i], BADUTF8) => \E j \in 1..(i - 1) : LineHas(lines[j], HEADEND)

\* C10 as amended: a file that holds the sentinel title on a line no later
\* than the first line with `</head>`, and is valid UTF-8 up to that line,
\* yields no entries and no error, whatever its name.
C10_SentinelInHead ==
  ParseDone =>
    \A f \in docset :
      SentinelInHead(f.lines) => (call.err = "none" /\ call.entries = <<>>)

\* a symbol page skipped for a sentinel that lies behind the first 512 bytes
C10_Witness ==
  /\ ParseDone /\ call.err = "none" /\ call.entries = <<>>
  /\ \E f \in docset :
       /\ f.name = SymbolFileName(<<"f", "n">>, <<"a">>)
       /\ SentinelInHead(f.lines)
       /\ ~SentinelInWindow(f.lines)

\* the files of the docset that the walk reaches and whose name is
\* `{kind}.{Symbol}.html` with a kind token outside the vocabulary, and
\* that are no redirection pages
UnknownKindFiles ==
  {f \in SymbolFiles(docset) :
     /\ ~FromStr(Split(f.name, ".")[1]).ok
     /\ Split(f.name, ".")[3] = HTML
     /\ \A i \in 1..Len(f.dir) : f.dir[i] \notin ROOT_SKIP_DIRS
     /\ ~CheckIfRedirection(f.lines).redirect}

\* C11: when the docset holds a file `{kind}.{Symbol}.html` of an unknown
\* kind token that is no redirection, every run of index over it (alone, or
\* inside a search or a resolve call) ends with the UnknownEntryType error
\* and reports no entries, whatever the enumeration order.
C11_UnknownKindAborts ==
  (call.phase = "done" /\ call.op \in {"index", "search", "resolve"} /\ UnknownKindFiles # {}) =>
    (call.err = "UnknownEntryType" /\ ~call.indexed /\ call.entries = <<>>)

\* an index run over a docset that holds a page of an unknown kind beside
\* a page that gives entries
C11_Witness ==
  /\ call.phase = "done" /\ call.op = "index" /\ call.err = "UnknownEntryType"
  /\ UnknownKindFiles # {}
  /\ \E f \in docset : f \notin UnknownKindFiles

\* the set of rows of a table
RowSet(t) == {t.rows[i] : i \in 1..Len(t.rows)}

\* C12: a search call never mutates the Index Store: no step of a search
\* call changes whether the table exists, nor the set of its rows.
C12_SearchKeepsStore ==
  [][\A p \in Callers :
       (calls'[p].op = "search" /\ calls'[p] # calls[p]) =>
         (table'.exists = table.exists /\ RowSet(table') = RowSet(table))]_vars

\* what a call returned
Outcome(c) == [err |-> c.err, items |-> c.items]

\* what the same call returns when no other call runs
Alone(c) ==
  IF c.op = "search"
  THEN Outcome(SearchCrateTypeDefinitions(docset, c.ord, NoTable, tail, c.query, {}, NoLimit))
  ELSE Outcome([err |-> GetCrateItemResource(docset, c.ord, NoTable, tail, c.location).err,
                items |-> IF GetCrateItemResource(docset, c.ord, NoTable, tail, c.location).err = "none"
                          THEN <<GetCrateItemResource(docset, c.ord, NoTable, tail, c.location).item>>
                          ELSE <<>>])

\* C13: search and resolve calls may run simultaneously: under every
\* interleaving each call that has returned has returned what it returns
\* when it runs alone.
C13_SameResultAsAlone ==
  \A p \in Callers : calls[p].pc = "done" => Outcome(calls[p]) = Alone(calls[p])

\* C14: a build is atomic for observers: at every point the table is
\* missing or holds the complete set of the entries of the docset, never
\* some or none of them.
C14_BuildAtomic ==
  table.exists => RowSet(table) = {Row(Walked(docset)[i]) : i \in 1..Len(Walked(docset))}

\* C15: whenever download returns successfully, the tree at the destination
\* holds every file of the archive that lies in the crate's own directory,
\* in `src` or in `implementors`, and no other top-level directory.
C15_DownloadedTreeSanitized ==
  (call.phase = "done" /\ call.op = "download" /\ call.err = "none") =>
    (dest.exists /\ dest.files = {i \in 1..Len(dest.archive) : dest.archive[i] \in KeptDirs})

\* C16: resolving a location for which the store holds no row fails with
\* NotFound.
C16_NoEntryIsNotFound ==
  (/\ call.phase = "done" /\ call.op = "resolve" /\ call.indexed
   /\ \A i \in 1..Len(table.rows) : table.rows[i].path # RSplitOnce(UriItemPath(call.location), "#")[1]) =>
    call.err = "NotFound"

\* C17: resolving an item does not fail because of its source link, and the
\* item has a source reference only when the link leads to an existing path
\* inside the docset root.
C17_SrcPathInsideRoot ==
  (call.phase = "done" /\ call.op = "item" /\ "src_path" \in DOMAIN call) =>
    /\ call.err = "none"
    /\ call.src_path.some =>
         /\ call.href.some
         /\ SrcTarget(call.location, call.href, call.fs).ok
         /\ StartsWith(SrcTarget(call.location, call.href, call.fs).path, SrcRoot)

\* whether sub occurs in s as a run of neighbouring characters
Infix(sub, s) == \E i \in 0..(Len(s) - Len(sub)) : SubSeq(s, i + 1, i + Len(sub)) = sub

\* C18: for a non-empty query with no `%` and no space, a row of an allowed
\* kind is returned iff the query occurs, case ignored, as a substring of
\* the row's name or of its location.
C18_ReturnedIffSubstring ==
  (/\ SearchDone /\ call.op = "search" /\ call.limit = NoLimit
   /\ call.query # <<>> /\ ~HasChar(call.query, "%") /\ ~HasChar(call.query, " ")) =>
    \A i \in 1..Len(table.rows) :
      table.rows[i].ty \in (IF call.kinds = {} THEN AllKnownKinds ELSE call.kinds) =>
        ((\E j \in 1..Len(call.rowids) : call.rowids[j] = i)
           <=> \/ Infix(ToLowercase(call.query), ToLowercase(table.rows[i].name))
               \/ Infix(ToLowercase(call.query), ToLowercase(table.rows[i].path)))

\* C19: the result sequence of a search is the one that the search gives on
\* the store built in any other enumeration order of the same docset.
C19_OrderIndependent ==
  SearchDone =>
    \A ord \in Orders(docset) :
      SearchCrateTypeDefinitions(docset, ord, NoTable, tail, call.query, call.kinds,
                                 call.limit).locations = call.locations

\* the lengths of the leading parts of the content that a response may
\* keep: those within the size limit, and the first resource in any case
Fitting(content) ==
  {n \in 0..Len(content) :
     \/ FoldBytes(SubSeq(content, 1, n)) <= MAX_RESPONSE_SIZE_BYTES
     \/ n = 1}

\* the longest leading part of the content that a response may keep
LongestPrefix(content) ==
  SubSeq(content, 1, CHOOSE n \in Fitting(content) : \A k \in Fitting(content) : k <= n)

TruncateDone == call.phase = "done" /\ call.op = "truncate"

\* C20 as stated: what truncate_resources returns is the longest leading
\* part of its input within 262144 bytes, the first resource kept in any
\* case.
C20_ReturnsLongestPrefix ==
  TruncateDone => call.out = LongestPrefix(call.content)

\* C20: the resources that truncate_resources returns are the longest
\* leading part of its input within 262144 bytes, the first resource kept
\* in any case, in the order of the input; when resources were removed one
\* note follows them that tells how many there were and how many are shown.
C20_LongestPrefixThenNote ==
  TruncateDone =>
    call.out = LongestPrefix(call.content)
                 \o (IF Len(LongestPrefix(call.content)) < Len(call.content)
                     THEN <<Note(Len(call.content), Len(LongestPrefix(call.content)))>>
                     ELSE <<>>)

C20_Witness ==
  /\ TruncateDone
  /\ Len(call.content) = 3
  /\ Len(call.out) = 3
  /\ call.out[3].kind = "text"
  /\ FoldBytes(SubSeq(call.content, 1, 2)) = MAX_RESPONSE_SIZE_BYTES

WalkDone == call.phase = "done" /\ call.op = "index" /\ call.err = "none"

\* the entries of a finished walk that lie in the page f
EntriesOf(f) ==
  SelectSeq(call.entries, LAMBDA e : Split(e.path, "#")[1] = RelPath(f))

\* C22: a directory named `src` or `implementors` is skipped only as a
\* direct child of the docset root: a page has an entry iff the first
\* directory on its path is none of the two.
C22_SkipOnlyAtRoot ==
  WalkDone =>
    \A f \in docset : (EntriesOf(f) # <<>>) <=> (f.dir[1] \notin ROOT_SKIP_DIRS)

\* the directories between the docset root and a page, without the crate's
\* own top-level directory
ModuleDirs(f) == IF f.dir # <<>> /\ f.dir[1] = CrateDir THEN Tail(f.dir) ELSE f.dir

\* C23: the name of the entry of a symbol page is the `::`-joined sequence
\* of the directories between the docset root and the page, without the
\* crate's own top-level directory, followed by the symbol.
C23_NameIsModulePath ==
  WalkDone =>
    \A f \in SymbolFiles(docset) :
      \A i \in 1..Len(call.entries) :
        call.entries[i].path = RelPath(f) =>
          call.entries[i].name = Join(ModuleDirs(f) \o <<Split(f.name, ".")[2]>>, COLONS)

\* the kind a page's file name gives
PageKind(f) == FromStr(Split(f.name, ".")[1]).ty

\* the entry e is the nested entry of the section `{prefix}{name}` of the
\* page f whose own entry is named parent
IsNested(e, f, prefix, parent) ==
  /\ HasChar(e.path, "#")
  /\ StartsWith(RSplitOnce(e.path, "#")[2], prefix)
  /\ e.path = RelPath(f) \o HASH \o RSplitOnce(e.path, "#")[2]
  /\ e.name = parent \o COLONS \o From(RSplitOnce(e.path, "#")[2], Len(prefix) + 1)

\* C24: Method entries come only from Struct, Enum and Trait pages, Variant
\* entries only from Enum and Type pages; a nested entry is named
\* `{parent}::{name}` and lies at the parent's path with the section id as
\* fragment; a page of another kind, and a Type page without variant
\* sections, gives exactly one entry.
C24_NestedByParentKind ==
  WalkDone =>
    \A f \in docset :
      LET es == EntriesOf(f)
          own == es[Len(es)]
      IN  es # <<>> =>
            /\ own.path = RelPath(f) /\ own.ty = PageKind(f)
            /\ \A i \in 1..(Len(es) - 1) :
                 \/ /\ es[i].ty = "Method" /\ PageKind(f) \in {"Struct", "Enum", "Trait"}
                    /\ IsNested(es[i], f, METHOD_PREFIX, own.name)
                 \/ /\ es[i].ty = "Variant" /\ PageKind(f) \in {"Enum", "Type"}
                    /\ IsNested(es[i], f, VARIANT_PREFIX, own.name)
            /\ PageKind(f) \notin {"Struct", "Enum", "Trait", "Type"} => Len(es) = 1
            /\ (PageKind(f) = "Type" /\ f.variants = <<>>) => Len(es) = 1

C24_Witness ==
  /\ WalkDone
  /\ \E f \in docset : PageKind(f) = "Enum" /\ Len(EntriesOf(f)) = 3
  /\ \E f \in docset : PageKind(f) = "Function" /\ f.methods # <<>> /\ Len(EntriesOf(f)) = 1

\* C27: an index call that fails before the store is rebuilt (source
\* missing or no directory, an IO error in the walk, UnknownEntryType)
\* leaves the table and its rows as they were.
C27_FailedWalkKeepsStore ==
  (/\ call.phase = "done" /\ call.op = "index"
   /\ call.err \in {"SourceNotFound", "SourceNotDirectory", "Io", "UnknownEntryType"}) =>
    table = prev

C27_Witness ==
  /\ call.phase = "done" /\ call.op = "index" /\ call.err = "UnknownEntryType"
  /\ prev = OldStore /\ table = OldStore

\* C28: for every result of a search, resolving the result's docs_resource
\* uri gives the Item that the search returned for it.
C28_ResolveGivesSearchItem ==
  SearchDone =>
    \A j \in 1..Len(call.items) :
      \A ord \in Orders(docset) :
        /\ GetCrateItemResource(docset, ord, table, tail, call.locations[j]).err = "none"
        /\ GetCrateItemResource(docset, ord, table, tail, call.locations[j]).item = call.items[j]

\* the locations of the rows that the query of a finished search selects
Ranked == Locations(table.rows, Select(table.rows, call.query, call.kinds, call.limit))

\* C29: a search in which the Item of a matched row does not resolve
\* returns the error of the first such row and no result; any other search
\* returns one result per matched row, in the order of the ranked rows.
C29_AllOrNothing ==
  (call.phase = "done" /\ call.op = "search" /\ call.indexed) =>
    LET failing == {j \in 1..Len(Ranked) : DocsItem(table, docset, Ranked[j]).err # "none"} IN
    IF failing # {}
    THEN /\ call.items = <<>>
         /\ call.err = DocsItem(table, docset,
                                Ranked[CHOOSE j \in failing : \A k \in failing : j <= k]).err
    ELSE /\ call.err = "none"
         /\ Len(call.items) = Len(Ranked)
         /\ \A j \in 1..Len(Ranked) : call.items[j] = DocsItem(table, docset, Ranked[j]).item

C29_Witness ==
  /\ call.phase = "done" /\ call.op = "search" /\ call.indexed
  /\ Len(Ranked) = 3
  /\ DocsItem(table, docset, Ranked[1]).err = "none"
  /\ DocsItem(table, docset, Ranked[3]).err = "NotFound"
  /\ call.err = "NotFound" /\ call.items = <<>>

\* the call on a Url has returned
UriDone == call.op = "crate_resource" /\ call.phase = "done"

\* the k-th path segment of the Url of the call, or none
Segment(k) ==
  IF PathSegments(call.url).some /\ Len(PathSegments(call.url).v) >= k
  THEN Present(PathSegments(call.url).v[k])
  ELSE Absent

\* the segments of the Url of the call after the second, joined with `/`
RestOfPath ==
  IF PathSegments(call.url).some
  THEN Join(SubSeq(PathSegments(call.url).v, 3, Len(PathSegments(call.url).v)), SLASH)
  ELSE <<>>

\* the fields of the accepted uri other than root and fragment are those of the Url
UriFieldsFromUrl ==
  /\ call.parsed.uri.name = call.url.host.v
  /\ call.parsed.uri.version = Segment(1)
  /\ call.parsed.uri.root.some = Segment(2).some
  /\ (Segment(2).some => AsStr(call.parsed.uri.root.v) = ToLowercase(Segment(2).v))
  /\ call.parsed.uri.path = RestOfPath

\* C21 as stated: CrateUri::try_from accepts a Url iff its scheme is `crate`,
\* it has a host and its second path segment, when present, is one of
\* `readme`, `items`, `src`; the accepted uri has the host as name, the first
\* segment as version, the second as root, the rest joined with `/` as path
\* and the fragment of the Url as fragment, each absent when the Url has no
\* such part; every other Url gives InvalidResourceUri
C21_TryFromAsStated ==
  UriDone =>
    /\ call.parsed.err = "none"
         <=> /\ call.url.scheme = CRATE
             /\ call.url.host.some
             /\ (Segment(2).some => Segment(2).v \in {README, ITEMS, SrcDir})
    /\ (call.parsed.err = "none" =>
          UriFieldsFromUrl /\ call.parsed.uri.fragment = call.url.fragment)
    /\ (call.parsed.err # "none" => call.parsed.err = "InvalidResourceUri")

\* C21 amended: CrateUri::try_from accepts a Url iff its scheme is `crate`, it
\* has a host and its second path segment, when present, is one of `readme`,
\* `items`, `src` in any letter case; the accepted uri has the host as name,
\* the first segment as version, the second as root, the rest joined with `/`
\* as path, and the fragment of the Url as fragment when the Url has a path
\* and no fragment when it has none; every other Url gives InvalidResourceUri
C21_TryFromAnyCase ==
  UriDone =>
    /\ call.parsed.err = "none"
         <=> /\ call.url.scheme = CRATE
             /\ call.url.host.some
             /\ (Segment(2).some => ToLowercase(Segment(2).v) \in {README, ITEMS, SrcDir})
    /\ (call.parsed.err = "none" =>
          /\ UriFieldsFromUrl
          /\ call.parsed.uri.fragment
               = IF PathSegments(call.url).some THEN call.url.fragment ELSE Absent)
    /\ (call.parsed.err # "none" => call.parsed.err = "InvalidResourceUri")

\* a Url with a root in capitals, a path and a fragment was accepted
C21_Witness ==
  /\ UriDone /\ call.parsed.err = "none"
  /\ Segment(2).some /\ Segment(2).v # ToLowercase(Segment(2).v)
  /\ call.parsed.uri.root = [some |-> TRUE, v |-> "Items"]
  /\ call.parsed.uri.path # <<>>
  /\ call.parsed.uri.fragment.some

\* C30: every uri that CrateUri::try_from accepts with root `items` or `src`
\* and a path that is not empty is accepted by Config::try_from of the
\* downloader when the resource is fetched, a partial version included
C30_DownloaderAcceptsParsedUri ==
  (/\ UriDone /\ call.parsed.err = "none"
   /\ call.parsed.uri.root.some /\ call.parsed.uri.root.v \in {"Items", "Src"}
   /\ call.parsed.uri.path # <<>>)
  => call.fetch.err = "none"

\* find_documentation has returned to Docs::item
DomDone == call.op = "find_documentation" /\ call.stack = <<>>

\* the first docblock in the order of the search from the node: the node
\* itself, then what the search from its next sibling finds, then what the
\* search from its parent finds; 0 when there is none
RECURSIVE FirstDocblock(_, _)
FirstDocblock(doc, n) ==
  IF n \in doc.docblock THEN n
  ELSE IF NextSibling(doc.parents, n) # 0
          /\ FirstDocblock(doc, NextSibling(doc.parents, n)) # 0
       THEN FirstDocblock(doc, NextSibling(doc.parents, n))
  ELSE IF doc.parents[n] = 0 THEN 0
  ELSE FirstDocblock(doc, doc.parents[n])

\* C25: the documentation of a fragment is absent, or it is the inner markup
\* of the first element with the class docblock that the order of the search
\* reaches from the selected element; it is never the markup of an element
\* that is no docblock
C25_DocumentationIsFirstDocblock ==
  DomDone =>
    /\ (call.ret.some => call.ret.v \in call.doc.docblock)
    /\ call.ret = IF FirstDocblock(call.doc, call.element) = 0
                  THEN NoDocumentation
                  ELSE InnerHtml(FirstDocblock(call.doc, call.element))

\* C26: the search for the documentation ends, with a result or with none,
\* for every document and every element it starts from
C26_SearchTerminates == <>DomDone

\* the search from an element with a sibling and a parent has ended with
\* none in a document without a docblock
C26_Witness ==
  /\ DomDone /\ ~call.ret.some
  /\ call.doc.docblock = {}
  /\ NextSibling(call.doc.parents, call.element) # 0
  /\ call.doc.parents[call.element] # 0

====
